---- MODULE Spec2Model ----
(***************************************************************************)
(* A model of cal_wrapper.py: the timezone conversions, the booking        *)
(* matcher and the five booking operations built on the Cal.com client.    *)
(*                                                                         *)
(* Representation of the Python values:                                    *)
(*   datetime        [aware, min, us, off]: aware = has a tzinfo, min =    *)
(*                   minutes since 2025-07-24T00:00 (on the UTC time line  *)
(*                   when aware, wall clock when not), us = the seconds    *)
(*                   and microseconds inside that minute, in microseconds, *)
(*                   off = the tzinfo's UTC offset in minutes (the wall    *)
(*                   clock an aware value shows is min + off).             *)
(*   ISO/UTC string  [kind, min, us]: kind "empty" (missing or ""),        *)
(*                   "garbage" (fromisoformat raises ValueError), "naive"  *)
(*                   (well formed, no offset), "z" (well formed, UTC).     *)
(*   date string     [wf, day]: wf = has the shape %Y-%m-%d of a real      *)
(*                   date, day = days after 2025-07-24.                    *)
(*   time string     [wf, h, m]: wf = has the shape digits:digits.         *)
(*   booking         [uid, title, status, start, end]; a missing key reads *)
(*                   as "" (the fields are read with dict.get).            *)
(*   Optional[X]     a set with at most one element; {} is None.           *)
(*   message         [kind, parts]: an f-string, kind its template and     *)
(*                   parts the values substituted, in order.               *)
(*                                                                         *)
(* datetime.fromisoformat is the one of Python 3.11 and later: it reads    *)
(* any number of fractional digits, so it reads back the strings           *)
(* convert_iso_to_utc_api_format writes.                                   *)
(***************************************************************************)
EXTENDS Integers, Sequences, FiniteSets, TLC

VARIABLES
    now,          \* the wall clock read by datetime.now(pytz.UTC)
    eventTypeId,  \* config.event_type_id ("" when CAL_EVENT_TYPE_ID is not set)
    remote,       \* the bookings the remote calendar service holds for the attendee
    inv,          \* per caller: the running operation, its arguments and locals
    calls,        \* per caller: the requests the running operation has sent
    result,       \* per caller: the string the operation returned
    call,         \* function-level harness: the function applied and its inputs
    ret           \* function-level harness: what the function returned

vars == <<now, eventTypeId, remote, inv, calls, result, call, ret>>

opvars == <<eventTypeId, remote, inv, calls, result>>

(***************************************************************************)
(* Bounds of the model.                                                    *)
(***************************************************************************)
MaxBookings == 2

(***************************************************************************)
(* Input samples.  T0 = 1080 is 2025-07-24T18:00Z, i.e. 14:00 in New York. *)
(***************************************************************************)
Dt(aware, min, us, off) == [aware |-> aware, min |-> min, us |-> us, off |-> off]

IsoStr(kind, min, us) == [kind |-> kind, min |-> min, us |-> us]

NoStart == IsoStr("empty", 0, 0)

GarbageStart == IsoStr("garbage", 0, 0)

DateStr(wf, day) == [wf |-> wf, day |-> day]

TimeStr(wf, h, m) == [wf |-> wf, h |-> h, m |-> m]

NowSamples == {Dt(TRUE, 1079, 30000000, 0), Dt(TRUE, 1080, 0, 0), Dt(TRUE, 1080, 5000000, 0)}

Timezones == {"UTC", "America/New_York", "Mars/Olympus"}

DateSamples == {DateStr(TRUE, 0), DateStr(FALSE, 0)}

TimeSamples == {TimeStr(TRUE, 14, 0), TimeStr(TRUE, 18, 0), TimeStr(TRUE, 25, 0)}

StartSamples ==
    { NoStart, GarbageStart, IsoStr("naive", 1080, 0),
      IsoStr("z", 1079, 0), IsoStr("z", 1080, 0),
      IsoStr("z", 1080, 347000), IsoStr("z", 1081, 0) }

Booking(uid, title, status, start, end) ==
    [uid |-> uid, title |-> title, status |-> status, start |-> start, end |-> end]

NoBooking == Booking("", "", "", NoStart, NoStart)

(***************************************************************************)
(* BookingStatus (the enum) and str.lower on the status strings.           *)
(***************************************************************************)
BookingStatus_ACCEPTED == "accepted"

StatusSamples == {"accepted", "ACCEPTED", "Accepted", "pending", "cancelled", "rescheduled", ""}

Lower(s) ==
    CASE s = "ACCEPTED" -> "accepted"
      [] s = "Accepted" -> "accepted"
      [] OTHER -> s

\* a status field holding the JSON value null: booking.get('status', '') is
\* then None, which has no lower()
NullStatus == "<null>"

(***************************************************************************)
(* pytz.timezone and the zone's UTC offset in minutes.  New York is on EDT *)
(* (UTC-4) until 2025-11-02T06:00Z, on EST (UTC-5) until 2026-03-08T07:00Z *)
(* and on EDT after it; instants outside 2025-2026 take the offset of the  *)
(* nearer end.                                                             *)
(***************************************************************************)
Resolvable(tz) == tz \in {"UTC", "America/New_York"}

\* 2025-11-02T06:00Z and 2026-03-08T07:00Z in minutes since 2025-07-24T00:00Z
FallBack2025 == 145800

SpringForward2026 == 327300

\* the zone's standard (non-DST) offset
StandardOffset(tz) == IF tz = "America/New_York" THEN 0 - 300 ELSE 0

\* the zone's offset at the UTC instant utc_min
UtcOffsetAt(tz, utc_min) ==
    IF tz = "America/New_York"
    THEN IF utc_min >= FallBack2025 /\ utc_min < SpringForward2026
         THEN 0 - 300 ELSE 0 - 240
    ELSE 0

\* the offsets under which the wall clock wall_min exists in the zone
OffsetsOfWall(tz, wall_min) ==
    {off \in {0 - 300, 0 - 240, 0} : UtcOffsetAt(tz, wall_min - off) = off}

\* a localize that knows only the summer offset: C12 fails with it
Localize_SummerOnly(tz, naive) ==
    LET off == IF tz = "America/New_York" THEN 0 - 240 ELSE 0 IN
    Dt(TRUE, naive.min - off, naive.us, off)

\* tz.localize(naive), is_dst=False: the wall clock read in the zone.  A wall
\* clock that exists once takes its offset; one that exists twice (clocks set
\* back) or never (clocks set forward) takes the standard offset.
Localize(tz, naive) ==
    LET offs == OffsetsOfWall(tz, naive.min)
        off == IF Cardinality(offs) = 1 THEN CHOOSE o \in offs : TRUE
               ELSE StandardOffset(tz)
    IN Dt(TRUE, naive.min - off, naive.us, off)

(***************************************************************************)
(* datetime.astimezone(tz): an aware value keeps its instant; a naive one  *)
(* is read as the wall clock of the process's own zone (taken to be UTC).  *)
(***************************************************************************)
HostOffset == UtcOffsetAt("UTC", 0)

Astimezone(dt, tz) ==
    LET utc_min == IF dt.aware THEN dt.min ELSE dt.min - HostOffset IN
    Dt(TRUE, utc_min, dt.us, UtcOffsetAt(tz, utc_min))

(***************************************************************************)
(* The range of datetime: date arithmetic that leaves it raises            *)
(* OverflowError ("date value out of range").  DatetimeMin is              *)
(* 0001-01-01T00:00 in minutes since 2025-07-24T00:00; the upper end       *)
(* (year 9999) lies outside the integers of the model and is not sampled.  *)
(***************************************************************************)
DatetimeMin == 0 - 1064815200

Overflows(m) == m < DatetimeMin

\* localize looks one day before and one day after the wall clock
LocalizeRaises(naive) == Overflows(naive.min - 1440)

\* astimezone computes the wall clock of the value in the target zone
AstimezoneRaises(dt, tz) ==
    LET utc_min == IF dt.aware THEN dt.min ELSE dt.min - HostOffset IN
    Overflows(utc_min) \/ Overflows(utc_min + UtcOffsetAt(tz, utc_min))

(***************************************************************************)
(* datetime.strptime(f"{date} {time}", '%Y-%m-%d %H:%M')                   *)
(***************************************************************************)
Strptime(date_str, time_str) ==
    IF date_str.wf /\ time_str.wf /\ time_str.h \in 0..23 /\ time_str.m \in 0..59
    THEN [exc |-> "none",
          dt |-> Dt(FALSE, date_str.day * 1440 + time_str.h * 60 + time_str.m, 0, 0)]
    ELSE [exc |-> "ValueError", dt |-> Dt(FALSE, 0, 0, 0)]

(***************************************************************************)
(* datetime.fromisoformat(s.replace("Z", "+00:00"))                        *)
(***************************************************************************)
FromIsoformat(s) ==
    CASE s.kind = "z"     -> [exc |-> "none", dt |-> Dt(TRUE, s.min, s.us, 0)]
      [] s.kind = "naive" -> [exc |-> "none", dt |-> Dt(FALSE, s.min, s.us, 0)]
      [] OTHER            -> [exc |-> "ValueError", dt |-> Dt(FALSE, 0, 0, 0)]

\* TimezoneHandler.parse_utc_datetime_string: re-raises ValueError
parse_utc_datetime_string(utc_datetime_str) == FromIsoformat(utc_datetime_str)

(***************************************************************************)
(* datetime comparisons: == between a naive and an aware value is False,   *)
(* an ordering between them raises TypeError.                              *)
(***************************************************************************)
DtEq(a, b) ==
    /\ a.aware = b.aware /\ a.min = b.min /\ a.us = b.us
    /\ (~a.aware => a.off = b.off)

DtGt(a, b) == a.min > b.min \/ (a.min = b.min /\ a.us > b.us)

Comparable(a, b) == a.aware = b.aware

(***************************************************************************)
(* TimezoneHandler.convert_user_time_to_utc                                *)
(***************************************************************************)
\* the value a function returned, or the exception that left it
Value(dt) == [exc |-> "none", dt |-> dt]

Raises(exc) == [exc |-> exc, dt |-> Dt(FALSE, 0, 0, 0)]

\* except (pytz.UnknownTimeZoneError, ValueError): return datetime.now(pytz.UTC)
ReadPathCaught == {"UnknownTimeZoneError", "ValueError"}

WithNowFallback(o) ==
    IF o.exc = "none" THEN o
    ELSE IF o.exc \in ReadPathCaught THEN Value(now)
    ELSE o

\* the try block
convert_user_time_to_utc_try(date_str, time_str, user_timezone) ==
    LET p == Strptime(date_str, time_str) IN
    IF p.exc # "none" THEN Raises(p.exc)
    ELSE IF user_timezone = "UTC" THEN Value(Dt(TRUE, p.dt.min, p.dt.us, 0))
    ELSE IF ~Resolvable(user_timezone) THEN Raises("UnknownTimeZoneError")
    ELSE IF LocalizeRaises(p.dt) THEN Raises("OverflowError")
    ELSE LET target_dt_with_tz == Localize(user_timezone, p.dt) IN
         IF AstimezoneRaises(target_dt_with_tz, "UTC") THEN Raises("OverflowError")
         ELSE Value(Astimezone(target_dt_with_tz, "UTC"))

\* [exc, dt]: what the call returns, or the exception that escapes it
convert_user_time_to_utc_outcome(date_str, time_str, user_timezone) ==
    WithNowFallback(convert_user_time_to_utc_try(date_str, time_str, user_timezone))

\* the value of a call that returns
convert_user_time_to_utc(date_str, time_str, user_timezone) ==
    convert_user_time_to_utc_outcome(date_str, time_str, user_timezone).dt

(***************************************************************************)
(* BookingMatcher.find_booking_by_time                                     *)
(***************************************************************************)
\* a matcher that keeps the seconds: C1 fails with it
TruncateToMinute_KeepSeconds(dt) == dt

\* dt.replace(second=0, microsecond=0)
TruncateToMinute(dt) == Dt(dt.aware, dt.min, 0, dt.off)

\* a matcher that does not look at the status: C2 fails with it
StatusIsAccepted_AnyStatus(booking) == TRUE

\* booking.get('status', '').lower() == BookingStatus.ACCEPTED.value
StatusIsAccepted(booking) == Lower(booking.status) = BookingStatus_ACCEPTED

\* the body of the loop for one booking: TRUE iff "return booking" is reached
MatchesTarget(booking, target_dt_utc) ==
    /\ StatusIsAccepted(booking)
    /\ booking.start.kind # "empty"
    /\ LET p == parse_utc_datetime_string(booking.start) IN
       /\ p.exc = "none"
       /\ DtEq(TruncateToMinute(p.dt), TruncateToMinute(target_dt_utc))

\* a loop that gives up at the first booking it does not return: C3 fails with it
ScanStep_GiveUp(bookings, i) == Len(bookings) + 1

\* what the loop does after looking at bookings[i] without returning it
ScanStep(bookings, i) == i + 1

RECURSIVE ScanFrom(_, _, _)
ScanFrom(bookings, i, target_dt_utc) ==
    IF i > Len(bookings) THEN 0
    ELSE IF MatchesTarget(bookings[i], target_dt_utc) THEN i
    ELSE ScanFrom(bookings, ScanStep(bookings, i), target_dt_utc)

\* The result: found = FALSE is None; idx is the position of the returned dict.
\* An exception of the conversion is caught by the outer except: None.
find_booking_by_time(bookings, target_date, target_time, user_timezone) ==
    LET o == convert_user_time_to_utc_outcome(target_date, target_time, user_timezone)
        i == ScanFrom(bookings, 1, o.dt)
    IN IF o.exc # "none" \/ i = 0 THEN [found |-> FALSE, idx |-> 0, booking |-> NoBooking]
       ELSE [found |-> TRUE, idx |-> i, booking |-> bookings[i]]

(***************************************************************************)
(* Messages (f-strings) and Optional values.                               *)
(***************************************************************************)
Msg(kind, parts) == [kind |-> kind, parts |-> parts]

None == {}

Some(x) == {x}

TheOne(opt) == CHOOSE x \in opt : TRUE

(***************************************************************************)
(* TimezoneHandler.convert_utc_to_user_timezone                            *)
(***************************************************************************)
\* the try block
convert_utc_to_user_timezone_try(utc_datetime_str, user_timezone) ==
    LET p == FromIsoformat(utc_datetime_str) IN
    IF p.exc # "none" THEN Raises(p.exc)
    ELSE IF user_timezone = "UTC" THEN Value(p.dt)
    ELSE IF ~Resolvable(user_timezone) THEN Raises("UnknownTimeZoneError")
    ELSE IF AstimezoneRaises(p.dt, user_timezone) THEN Raises("OverflowError")
    ELSE Value(Astimezone(p.dt, user_timezone))

\* [exc, dt]: what the call returns, or the exception that escapes it
convert_utc_to_user_timezone_outcome(utc_datetime_str, user_timezone) ==
    WithNowFallback(convert_utc_to_user_timezone_try(utc_datetime_str, user_timezone))

\* the value of a call that returns
convert_utc_to_user_timezone(utc_datetime_str, user_timezone) ==
    convert_utc_to_user_timezone_outcome(utc_datetime_str, user_timezone).dt

(***************************************************************************)
(* TimezoneHandler.convert_iso_to_utc_api_format: [exc, val, msg]; val is  *)
(* the returned string, msg the text of the ValueError raised.             *)
(***************************************************************************)
InvalidStartTime(start_time_iso) ==
    Msg("Invalid start time format '{start_time_iso}'. Please use ISO 8601 format.",
        <<start_time_iso>>)

\* strftime('%Y-%m-%dT%H:%M:%S.%fZ')[:-3] + 'Z' of a UTC value
\* (the slice drops the last two digits of %f and the Z: four digits remain)
ApiUtcString(dt) == IsoStr("z", dt.min, (dt.us \div 100) * 100)

\* an except branch that falls back to the current time, as the read path
\* does: C10 fails with it
IsoConversionFailure_FallbackNow(start_time_iso) ==
    [exc |-> "none", val |-> ApiUtcString(now), msg |-> InvalidStartTime(start_time_iso)]

\* what the except branch of convert_iso_to_utc_api_format does
IsoConversionFailure(start_time_iso) ==
    [exc |-> "ValueError", val |-> NoStart, msg |-> InvalidStartTime(start_time_iso)]

convert_iso_to_utc_api_format(start_time_iso, user_timezone) ==
    LET p == FromIsoformat(start_time_iso) IN
    IF p.exc # "none" THEN IsoConversionFailure(start_time_iso)
    ELSE IF ~p.dt.aware /\ ~Resolvable(user_timezone)
         THEN IsoConversionFailure(start_time_iso)
    ELSE LET dt_object == IF p.dt.aware THEN p.dt ELSE Localize(user_timezone, p.dt) IN
         [exc |-> "none", val |-> ApiUtcString(Astimezone(dt_object, "UTC")),
          msg |-> InvalidStartTime(start_time_iso)]

(***************************************************************************)
(* FormatType and DateTimeFormatter.format_for_display.  A format_type     *)
(* argument is [is_str, value]: a member of the enum, or a string.  The    *)
(* rendered text is the pattern and the wall clock it prints: the minute   *)
(* of the day for '%H:%M', the minute since 2025-07-24T00:00 for the       *)
(* patterns with a date, and for '%I:%M %p' the hour of the 12-hour clock  *)
(* and the meridiem as well.  str(dt) prints the whole value.              *)
(***************************************************************************)
FormatType(value) == [is_str |-> FALSE, value |-> value]

FormatType_TIME_ONLY == FormatType("time_only")

FormatType_DATE_TIME == FormatType("date_time")

FormatType_FRIENDLY == FormatType("friendly")

FormatType_DEFAULT == FormatType("datetime")

\* a str passed as format_type
KindString(value) == [is_str |-> TRUE, value |-> value]

\* the table, by the value of the member that is the key
FORMAT_PATTERNS ==
    [time_only |-> "%H:%M", date_time |-> "%Y-%m-%d %H:%M",
     friendly |-> "%B %d, %Y at %I:%M %p", datetime |-> "%Y-%m-%d %H:%M"]

\* a rendering that prints every kind with the date-time pattern: C25 fails
\* with it
Strftime_DateTimeOnly(dt, pattern) ==
    [pattern |-> "%Y-%m-%d %H:%M", wall |-> dt.min + dt.off]

\* dt.strftime(pattern)
Strftime(dt, pattern) ==
    LET wall == dt.min + dt.off
        hour == (wall % 1440) \div 60
    IN
    CASE pattern = "%H:%M" -> [pattern |-> pattern, wall |-> wall % 1440]
      [] pattern = "%B %d, %Y at %I:%M %p" ->
           [pattern |-> pattern, wall |-> wall,
            hour12 |-> IF hour % 12 = 0 THEN 12 ELSE hour % 12,
            meridiem |-> IF hour < 12 THEN "AM" ELSE "PM"]
      [] OTHER -> [pattern |-> pattern, wall |-> wall]

\* str(dt)
StrOf(dt) == [pattern |-> "str(dt)", dt |-> dt]

\* format_for_display over a pattern table (the class attribute): the
\* conversion of a string to the enum raises ValueError on an unknown value,
\* the default of the lookup is evaluated before the lookup and raises
\* KeyError when the table has no DEFAULT; both are caught
format_for_display_with(patterns, dt, user_timezone, format_type) ==
    IF format_type.is_str /\ format_type.value \notin DOMAIN FORMAT_PATTERNS
    THEN StrOf(dt)
    ELSE IF "datetime" \notin DOMAIN patterns THEN StrOf(dt)
    ELSE IF format_type.value \in DOMAIN patterns
         THEN Strftime(dt, patterns[format_type.value])
         ELSE Strftime(dt, patterns["datetime"])

format_for_display(dt, user_timezone, format_type) ==
    format_for_display_with(FORMAT_PATTERNS, dt, user_timezone, format_type)

(***************************************************************************)
(* BookingMatcher.format_booking_list                                      *)
(***************************************************************************)
\* the conversion of a string for display ends in an exception, which the
\* "except Exception" around the formatting code catches
DisplayRaises(utc_datetime_str, user_timezone) ==
    convert_utc_to_user_timezone_outcome(utc_datetime_str, user_timezone).exc # "none"

\* booking.get('title', default): a missing title is the empty title
TitleOr(booking, default) == IF booking.title = "" THEN default ELSE booking.title

FormatBookingLine(booking, user_timezone) ==
    IF booking.start.kind = "empty"
    THEN Msg("- {title}: No start time available", <<TitleOr(booking, "Untitled")>>)
    ELSE IF DisplayRaises(booking.start, user_timezone)
    THEN Msg("- {title}: {start}", <<TitleOr(booking, "Unknown"), booking.start>>)
    ELSE LET booking_dt_user_tz ==
                 convert_utc_to_user_timezone(booking.start, user_timezone)
             display_time ==
                 format_for_display(booking_dt_user_tz, user_timezone, FormatType_DATE_TIME)
         IN Msg("- {title}: {display_time} ({user_timezone})",
                <<TitleOr(booking, "Untitled"), display_time, user_timezone>>)

\* a slice that ignores the limit: C24 fails with it
Take_All(seq, limit) == seq

\* bookings[:limit]
Take(seq, limit) == SubSeq(seq, 1, IF Len(seq) < limit THEN Len(seq) ELSE limit)

format_booking_list(bookings, user_timezone, limit) ==
    LET shown == Take(bookings, limit) IN
    [i \in 1..Len(shown) |-> FormatBookingLine(shown[i], user_timezone)]

(***************************************************************************)
(* ApiResponse and CalApiClient._make_request.  What requests.request did  *)
(* is an outcome [raised, msg, status_code, text, json]: it raised a       *)
(* RequestException with text msg, or answered with a status code, a body  *)
(* text and, when the body is JSON, the decoded value (json = None: the    *)
(* body is not JSON).  A decoded dict is a payload                         *)
(* [null, empty, status, error, data]: null = the JSON value null, empty = *)
(* the dict {}, status = its "status" ("" when absent), error and data     *)
(* Optional.                                                               *)
(***************************************************************************)
\* an envelope that loses the status code: C13 fails with it
ApiResponse_NoStatus(success, data, error, status_code) ==
    [success |-> success, data |-> data, error |-> error, status_code |-> {}]

ApiResponse(success, data, error, status_code) ==
    [success |-> success, data |-> data, error |-> error, status_code |-> status_code]

Raised(msg) ==
    [raised |-> TRUE, msg |-> msg, status_code |-> 0, text |-> "", json |-> None]

Answered(status_code, text, json) ==
    [raised |-> FALSE, msg |-> "", status_code |-> status_code, text |-> text, json |-> json]

Payload(status, error, data) ==
    [null |-> FALSE, empty |-> FALSE, status |-> status, error |-> error, data |-> data]

EmptyDict == [null |-> FALSE, empty |-> TRUE, status |-> "", error |-> None, data |-> None]

JsonNull == [null |-> TRUE, empty |-> FALSE, status |-> "", error |-> None, data |-> None]

\* a test that takes only server errors for failures: C14 fails with it
IsHttpError_ServerOnly(status_code) == status_code >= 500

\* if response.status_code >= 400
IsHttpError(status_code) == status_code >= 400

\* A body that is not JSON: response.json() raises a ValueError, which newer
\* versions of requests also make a RequestException; either clause returns a
\* failure with an error text and no status code (the text is that of the
\* ValueError clause).
_make_request(outcome) ==
    IF outcome.raised
    THEN ApiResponse(FALSE, None, Some(Msg("{e}", <<outcome.msg>>)), None)
    ELSE IF IsHttpError(outcome.status_code)
    THEN ApiResponse(FALSE, None,
                     Some(Msg("HTTP {status_code}: {text}",
                              <<outcome.status_code, outcome.text>>)),
                     Some(outcome.status_code))
    ELSE IF outcome.json = None
    THEN ApiResponse(FALSE, None, Some(Msg("Invalid JSON response: {e}", <<>>)), None)
    ELSE ApiResponse(TRUE,
                     IF TheOne(outcome.json).null THEN None ELSE outcome.json,
                     None, Some(outcome.status_code))

\* "not response.data": None or the empty dict
DataFalsy(response) == response.data = None \/ TheOne(response.data).empty

\* a status test that takes every non-empty payload for a success: C5 fails with it
NotSuccessStatus_AnyPayload(response) == DataFalsy(response)

\* not response.data or response.data.get("status") != "success"
NotSuccessStatus(response) ==
    DataFalsy(response) \/ TheOne(response.data).status # "success"

\* response.data.get('error', 'Unknown error') if response.data else 'No data'
FailureDetail(response) ==
    IF DataFalsy(response) THEN "No data"
    ELSE IF TheOne(response.data).error = None THEN "Unknown error"
    ELSE TheOne(TheOne(response.data).error)

(***************************************************************************)
(* _get_upcoming_accepted_bookings: [ok, bookings, error_msg, exc]; ok =    *)
(* FALSE is the return (None, error_msg); exc is the exception that        *)
(* escapes the call ("none": the call returns).                            *)
(***************************************************************************)
\* a filter that drops what it cannot compare and keeps a start equal to the
\* current instant: C4 fails with it
KeepUpcoming_DropUnparsed(booking) ==
    /\ StatusIsAccepted(booking)
    /\ booking.start.kind # "empty"
    /\ LET p == parse_utc_datetime_string(booking.start) IN
       /\ p.exc = "none"
       /\ Comparable(p.dt, now)
       /\ (DtGt(p.dt, now) \/ DtEq(p.dt, now))

\* the body of the filter loop for one booking: TRUE iff it is appended
KeepUpcoming(booking) ==
    /\ StatusIsAccepted(booking)
    /\ booking.start.kind # "empty"
    /\ LET p == parse_utc_datetime_string(booking.start) IN
       IF p.exc # "none" THEN TRUE
       ELSE IF ~Comparable(p.dt, now) THEN TRUE
       ELSE DtGt(p.dt, now)

RECURSIVE FilterUpcoming(_, _)
FilterUpcoming(all_bookings, i) ==
    IF i > Len(all_bookings) THEN <<>>
    ELSE IF KeepUpcoming(all_bookings[i])
         THEN <<all_bookings[i]>> \o FilterUpcoming(all_bookings, i + 1)
         ELSE FilterUpcoming(all_bookings, i + 1)

\* the status test of the loop is outside the try block: on a null status
\* the AttributeError of None.lower() leaves the loop and the function
FilterRaises(all_bookings) ==
    \E k \in 1..Len(all_bookings) : all_bookings[k].status = NullStatus

\* response.data.get("data", [])
AllBookings(response) ==
    IF TheOne(response.data).data = None THEN <<>>
    ELSE TheOne(TheOne(response.data).data)

\* a helper that answers from a list kept from before: C26 fails with it
_get_upcoming_accepted_bookings_Kept(response) ==
    [ok |-> TRUE,
     bookings |-> <<Booking("u9", "Kept", "accepted", IsoStr("z", 1081, 0), NoStart)>>,
     error_msg |-> Msg("", <<>>), exc |-> "none"]

_get_upcoming_accepted_bookings(response) ==
    IF ~response.success
    THEN [ok |-> FALSE, bookings |-> <<>>,
          error_msg |-> Msg("Error fetching bookings: {response.error}",
                            <<response.error>>),
          exc |-> "none"]
    ELSE IF NotSuccessStatus(response)
    THEN [ok |-> FALSE, bookings |-> <<>>,
          error_msg |-> Msg("Error: API returned failure. Details: {error_msg}",
                            <<FailureDetail(response)>>),
          exc |-> "none"]
    ELSE IF FilterRaises(AllBookings(response))
    THEN [ok |-> FALSE, bookings |-> <<>>, error_msg |-> Msg("", <<>>),
          exc |-> "AttributeError"]
    ELSE [ok |-> TRUE, bookings |-> FilterUpcoming(AllBookings(response), 1),
          error_msg |-> Msg("", <<>>), exc |-> "none"]

(***************************************************************************)
(* CalApiConfig.get_headers and the requests the client methods send:      *)
(* [method, endpoint, api_version, uid, start].                            *)
(***************************************************************************)
DEFAULT_API_VERSION == "2024-08-13"

SLOTS_API_VERSION == "2024-09-04"

\* headers that ignore the version asked for: C15 fails with them
get_headers_DefaultOnly(api_version) == "2024-08-13"

\* "cal-api-version": api_version or self.DEFAULT_API_VERSION
get_headers(api_version) ==
    IF api_version = None THEN DEFAULT_API_VERSION ELSE TheOne(api_version)

Request(method, endpoint, api_version, uid, start) ==
    [method |-> method, endpoint |-> endpoint, api_version |-> get_headers(api_version),
     uid |-> uid, start |-> start]

get_bookings_request == Request("GET", "bookings", None, "", NoStart)

get_available_slots_request == Request("GET", "slots", Some(SLOTS_API_VERSION), "", NoStart)

create_booking_request(start) == Request("POST", "bookings", None, "", start)

cancel_booking_request(booking_uid) ==
    Request("POST", "bookings/{uid}/cancel", None, booking_uid, NoStart)

reschedule_booking_request(booking_uid, start) ==
    Request("POST", "bookings/{uid}/reschedule", None, booking_uid, start)

(***************************************************************************)
(* The remote calendar service: what an endpoint can answer with.          *)
(***************************************************************************)
FailureOutcomes ==
    { Raised("Connection refused"),
      Answered(500, "Internal Server Error", None),
      Answered(200, "<html>", None),
      Answered(200, "null", Some(JsonNull)),
      Answered(200, "{}", Some(EmptyDict)),
      Answered(200, "json", Some(Payload("error", Some("User not found"), None))),
      Answered(200, "json", Some(Payload("error", None, None))) }

Success(data) == Answered(200, "json", Some(Payload("success", None, data)))

\* the bookings endpoint, given the list the service holds
BookingsOutcomes(bookings) ==
    FailureOutcomes \cup {Success(None), Success(Some(bookings))}

\* the position of the accepted booking a cancel or reschedule of uid acts on
RemoteTarget(bookings, uid) ==
    LET hits == {i \in 1..Len(bookings) :
                    bookings[i].uid = uid /\ Lower(bookings[i].status) = "accepted"}
    IN IF hits = {} THEN 0 ELSE CHOOSE i \in hits : \A j \in hits : i <= j

(***************************************************************************)
(* The callers and their invocation records.                               *)
(***************************************************************************)
Procs == {1, 2}

NoResult == Msg("", <<>>)

\* before a request has returned there is no response to it
NoResponse == ApiResponse(FALSE, None, None, None)

IdleInv ==
    [pc |-> "idle", op |-> "", date |-> DateStr(FALSE, 0), time |-> TimeStr(FALSE, 0, 0),
     tz |-> "", iso |-> NoStart, response |-> NoResponse, accepted |-> <<>>,
     matching |-> NoBooking, new_utc_time |-> NoStart, matcher_called |-> FALSE,
     mutation |-> NoResponse, exc |-> "none"]

\* the operation ends in an exception that nothing in it catches: the caller
\* gets no string
Escapes(i, exc) == [inv |-> [i EXCEPT !.pc = "done", !.exc = exc], result |-> NoResult]

NotConfigured ==
    Msg("Error: EVENT_TYPE_ID is not configured. Please check your .env file.", <<>>)

NoUpcoming == Msg("No upcoming accepted bookings found for that email.", <<>>)

UidNotFound == Msg("Error: Booking UID not found in booking data.", <<>>)

\* operations that do not test the uid: C7 fails with it
HasUid_Unchecked(booking) == TRUE

\* booking_uid = matching_booking.get('uid'); "if not booking_uid" is its negation
HasUid(booking) == booking.uid # ""

\* the limit cancel_booking and reschedule_booking pass to format_booking_list
CandidateLimit == 5

\* a no-match message that lists every candidate: C6 fails with it
NoBookingFound_ListAll(date, time, user_timezone, accepted_bookings) ==
    Msg("No booking found for {date} at {time} ({user_timezone}). Your upcoming accepted bookings:\n{available_list}",
        <<date, time, user_timezone,
          format_booking_list(accepted_bookings, user_timezone, Len(accepted_bookings))>>)

\* "\n".join(booking_list) if booking_list else "None found", inside the message
NoBookingFound(date, time, user_timezone, accepted_bookings) ==
    Msg("No booking found for {date} at {time} ({user_timezone}). Your upcoming accepted bookings:\n{available_list}",
        <<date, time, user_timezone,
          format_booking_list(accepted_bookings, user_timezone, CandidateLimit)>>)

(***************************************************************************)
(* list_bookings, after the bookings request has returned.                 *)
(***************************************************************************)
ListLine(booking, user_timezone) ==
    LET start_formatted ==
            format_for_display(convert_utc_to_user_timezone(booking.start, user_timezone),
                               user_timezone, FormatType_DATE_TIME)
        end_formatted ==
            format_for_display(convert_utc_to_user_timezone(booking.end, user_timezone),
                               user_timezone, FormatType_TIME_ONLY)
        uid == IF booking.uid = "" THEN "No UID" ELSE booking.uid
    IN IF DisplayRaises(booking.start, user_timezone)
          \/ DisplayRaises(booking.end, user_timezone)
       THEN Msg("- Title: {title}, Start: {start}, End: {end}, Booking UID: {uid}",
                <<TitleOr(booking, "Untitled"), booking.start, booking.end, uid>>)
       ELSE Msg("- Title: {title}, Start: {start_formatted}, End: {end_formatted} ({user_timezone}), Booking UID: {uid}",
                <<TitleOr(booking, "Untitled"), start_formatted, end_formatted,
                  user_timezone, uid>>)

\* a listing that counts every booking and renders the first five: C19 fails
\* with it
list_bookings_after_fetch_FirstFive(i, response) ==
    LET g == _get_upcoming_accepted_bookings(response) IN
    IF g.exc # "none" THEN Escapes(i, g.exc)
    ELSE IF ~g.ok THEN [inv |-> [i EXCEPT !.pc = "done"], result |-> g.error_msg]
    ELSE IF g.bookings = <<>>
    THEN [inv |-> [i EXCEPT !.pc = "done"], result |-> NoUpcoming]
    ELSE [inv |-> [i EXCEPT !.pc = "done", !.accepted = g.bookings],
          result |-> Msg("Upcoming accepted bookings ({n} found) in {user_timezone}:\n{lines}",
                         <<Len(g.bookings), i.tz,
                           [k \in 1..Len(Take(g.bookings, 5)) |->
                               ListLine(g.bookings[k], i.tz)]>>)]

list_bookings_after_fetch(i, response) ==
    LET g == _get_upcoming_accepted_bookings(response) IN
    IF g.exc # "none" THEN Escapes(i, g.exc)
    ELSE IF ~g.ok THEN [inv |-> [i EXCEPT !.pc = "done"], result |-> g.error_msg]
    ELSE IF g.bookings = <<>>
    THEN [inv |-> [i EXCEPT !.pc = "done"], result |-> NoUpcoming]
    ELSE [inv |-> [i EXCEPT !.pc = "done", !.accepted = g.bookings],
          result |-> Msg("Upcoming accepted bookings ({n} found) in {user_timezone}:\n{lines}",
                         <<Len(g.bookings), i.tz,
                           [k \in 1..Len(g.bookings) |-> ListLine(g.bookings[k], i.tz)]>>)]

(***************************************************************************)
(* cancel_booking: from the return of the bookings request to the cancel   *)
(* request or to the return of the operation.                              *)
(***************************************************************************)
CouldNotRetrieve(error_msg) ==
    Msg("Error: Could not retrieve bookings. {error_msg}", <<error_msg>>)

cancel_booking_after_fetch(i, response) ==
    LET g == _get_upcoming_accepted_bookings(response)
        m == find_booking_by_time(g.bookings, i.date, i.time, i.tz)
    IN
    IF g.exc # "none" THEN Escapes(i, g.exc)
    ELSE IF ~g.ok
    THEN [inv |-> [i EXCEPT !.pc = "done"], result |-> CouldNotRetrieve(g.error_msg)]
    ELSE IF g.bookings = <<>>
    THEN [inv |-> [i EXCEPT !.pc = "done"], result |-> NoUpcoming]
    ELSE IF ~m.found
    THEN [inv |-> [i EXCEPT !.pc = "done", !.accepted = g.bookings, !.matcher_called = TRUE],
          result |-> NoBookingFound(i.date, i.time, i.tz, g.bookings)]
    ELSE IF ~HasUid(m.booking)
    THEN [inv |-> [i EXCEPT !.pc = "done", !.accepted = g.bookings, !.matcher_called = TRUE,
                            !.matching = m.booking],
          result |-> UidNotFound]
    ELSE [inv |-> [i EXCEPT !.pc = "cancel_booking", !.accepted = g.bookings,
                            !.matcher_called = TRUE, !.matching = m.booking],
          result |-> NoResult]

\* the FRIENDLY rendering of a start string in the user's zone
FriendlyIn(start, user_timezone) ==
    format_for_display(convert_utc_to_user_timezone(start, user_timezone),
                       user_timezone, FormatType_FRIENDLY)

\* a cancel that does not read the payload's status: C18 fails with it
cancel_booking_after_cancel_TransportOnly(i, cancel_response) ==
    IF ~cancel_response.success
    THEN Msg("Error: Could not cancel the booking. {cancel_response.error}",
             <<cancel_response.error>>)
    ELSE Msg("Success! Booking '{booking_title}' scheduled for {display_time} ({user_timezone}) has been cancelled. Booking UID: {booking_uid}",
             <<TitleOr(i.matching, "Untitled"), FriendlyIn(i.matching.start, i.tz), i.tz,
               i.matching.uid>>)

\* a cancel that confirms whatever the service answered: C20 fails with it
cancel_booking_after_cancel_AlwaysConfirms(i, cancel_response) ==
    Msg("Success! Booking '{booking_title}' scheduled for {display_time} ({user_timezone}) has been cancelled. Booking UID: {booking_uid}",
        <<TitleOr(i.matching, "Untitled"), FriendlyIn(i.matching.start, i.tz), i.tz,
          i.matching.uid>>)

cancel_booking_after_cancel(i, cancel_response) ==
    IF ~cancel_response.success
    THEN Msg("Error: Could not cancel the booking. {cancel_response.error}",
             <<cancel_response.error>>)
    ELSE IF NotSuccessStatus(cancel_response)
    THEN Msg("Error: Could not cancel the booking. API response: {error_msg}",
             <<FailureDetail(cancel_response)>>)
    ELSE IF DisplayRaises(i.matching.start, i.tz)
    THEN Msg("Success! Booking '{booking_title}' has been cancelled. Booking UID: {booking_uid}",
             <<TitleOr(i.matching, "Untitled"), i.matching.uid>>)
    ELSE Msg("Success! Booking '{booking_title}' scheduled for {display_time} ({user_timezone}) has been cancelled. Booking UID: {booking_uid}",
             <<TitleOr(i.matching, "Untitled"), FriendlyIn(i.matching.start, i.tz), i.tz,
               i.matching.uid>>)

(***************************************************************************)
(* reschedule_booking: the same two stretches.                             *)
(***************************************************************************)
reschedule_booking_after_fetch(i, response) ==
    LET g == _get_upcoming_accepted_bookings(response)
        m == find_booking_by_time(g.bookings, i.date, i.time, i.tz)
        c == convert_iso_to_utc_api_format(i.iso, i.tz)
    IN
    IF g.exc # "none" THEN Escapes(i, g.exc)
    ELSE IF ~g.ok
    THEN [inv |-> [i EXCEPT !.pc = "done"], result |-> CouldNotRetrieve(g.error_msg)]
    ELSE IF g.bookings = <<>>
    THEN [inv |-> [i EXCEPT !.pc = "done"], result |-> NoUpcoming]
    ELSE IF ~m.found
    THEN [inv |-> [i EXCEPT !.pc = "done", !.accepted = g.bookings, !.matcher_called = TRUE],
          result |-> NoBookingFound(i.date, i.time, i.tz, g.bookings)]
    ELSE IF c.exc # "none"
    THEN [inv |-> [i EXCEPT !.pc = "done", !.accepted = g.bookings, !.matcher_called = TRUE,
                            !.matching = m.booking],
          result |-> c.msg]
    ELSE IF ~HasUid(m.booking)
    THEN [inv |-> [i EXCEPT !.pc = "done", !.accepted = g.bookings, !.matcher_called = TRUE,
                            !.matching = m.booking, !.new_utc_time = c.val],
          result |-> UidNotFound]
    ELSE [inv |-> [i EXCEPT !.pc = "reschedule_booking", !.accepted = g.bookings,
                            !.matcher_called = TRUE, !.matching = m.booking,
                            !.new_utc_time = c.val],
          result |-> NoResult]

reschedule_booking_after_reschedule(i, reschedule_response) ==
    IF ~reschedule_response.success
    THEN Msg("Error: Could not reschedule the booking. {reschedule_response.error}",
             <<reschedule_response.error>>)
    ELSE IF NotSuccessStatus(reschedule_response)
    THEN Msg("Error: Reschedule failed. API response: {error_msg}",
             <<FailureDetail(reschedule_response)>>)
    ELSE IF DisplayRaises(i.matching.start, i.tz) \/ DisplayRaises(i.iso, i.tz)
    THEN Msg("Successfully rescheduled '{booking_title}'! Booking UID: {booking_uid}",
             <<TitleOr(i.matching, "Untitled"), i.matching.uid>>)
    ELSE Msg("Successfully rescheduled '{booking_title}'!\nFrom: {old_display_time} ({user_timezone})\nTo: {new_display_time} ({user_timezone})\nBooking UID: {booking_uid}",
             <<TitleOr(i.matching, "Untitled"), FriendlyIn(i.matching.start, i.tz), i.tz,
               FriendlyIn(i.iso, i.tz), i.tz, i.matching.uid>>)

(***************************************************************************)
(* create_booking: up to the create request, and after it.                 *)
(***************************************************************************)
\* a create operation that sends whatever the conversion left: C9 fails with it
create_booking_before_create_SendAnyway(i) ==
    IF eventTypeId = ""
    THEN [inv |-> [i EXCEPT !.pc = "done"], result |-> NotConfigured]
    ELSE [inv |-> [i EXCEPT !.pc = "create_booking",
                            !.new_utc_time =
                                convert_iso_to_utc_api_format(i.iso, i.tz).val],
          result |-> NoResult]

create_booking_before_create(i) ==
    LET c == convert_iso_to_utc_api_format(i.iso, i.tz) IN
    IF eventTypeId = ""
    THEN [inv |-> [i EXCEPT !.pc = "done"], result |-> NotConfigured]
    ELSE IF c.exc # "none"
    THEN [inv |-> [i EXCEPT !.pc = "done"], result |-> c.msg]
    ELSE [inv |-> [i EXCEPT !.pc = "create_booking", !.new_utc_time = c.val],
          result |-> NoResult]

create_booking_after_create(i, response) ==
    IF ~response.success
    THEN Msg("Error: Booking creation failed. {response.error}", <<response.error>>)
    ELSE IF NotSuccessStatus(response)
    THEN Msg("Error: Booking creation failed. API response: {error_msg}",
             <<FailureDetail(response)>>)
    ELSE LET booking_uid == IF TheOne(response.data).data = None THEN "Unknown UID"
                            ELSE TheOne(TheOne(response.data).data).uid
         IN
         IF DisplayRaises(i.iso, i.tz)
         THEN Msg("Success! Meeting '{title}' booked for {user_name} at {start_time_iso}. Confirmation sent to {user_email}. Booking UID: {booking_uid}",
                  <<i.iso, booking_uid>>)
         ELSE Msg("Success! Meeting '{title}' booked for {user_name} on {display_time} ({user_timezone}). Confirmation sent to {user_email}. Booking UID: {booking_uid}",
                  <<FriendlyIn(i.iso, i.tz), i.tz, booking_uid>>)

(***************************************************************************)
(* get_available_slots: up to the slots request, and after it.  The        *)
(* payload's data is the slot list under the requested date (None: the     *)
(* date is not a key of the returned map).                                 *)
(***************************************************************************)
\* a slots operation that does not test the configuration: C8 fails with it
get_available_slots_before_slots_Unchecked(i) ==
    [inv |-> [i EXCEPT !.pc = "get_available_slots"], result |-> NoResult]

get_available_slots_before_slots(i) ==
    IF eventTypeId = ""
    THEN [inv |-> [i EXCEPT !.pc = "done"], result |-> NotConfigured]
    ELSE [inv |-> [i EXCEPT !.pc = "get_available_slots"], result |-> NoResult]

SlotLine(k, slot, user_timezone) ==
    IF DisplayRaises(slot.start, user_timezone) \/ DisplayRaises(slot.end, user_timezone)
    THEN Msg("{i}. {start} - {end}", <<k, slot.start, slot.end>>)
    ELSE
    Msg("{i}. {start_time} - {end_time} {user_timezone}",
        <<k,
          format_for_display(convert_utc_to_user_timezone(slot.start, user_timezone),
                             user_timezone, FormatType_TIME_ONLY),
          format_for_display(convert_utc_to_user_timezone(slot.end, user_timezone),
                             user_timezone, FormatType_TIME_ONLY),
          user_timezone>>)

get_available_slots_after_slots(i, response) ==
    IF ~response.success
    THEN Msg("Error fetching available slots: {response.error}", <<response.error>>)
    ELSE IF NotSuccessStatus(response)
    THEN Msg("Error: API returned failure. Details: {error_msg}", <<FailureDetail(response)>>)
    ELSE IF TheOne(response.data).data = None
    THEN Msg("No available slots found for {date}.", <<i.date>>)
    ELSE LET slots == TheOne(TheOne(response.data).data) IN
         IF slots = <<>> THEN Msg("No available slots found for {date}.", <<i.date>>)
         ELSE Msg("Available slots for {date} ({user_timezone}):\n{lines}",
                  <<i.date, i.tz, [k \in 1..Len(slots) |-> SlotLine(k, slots[k], i.tz)]>>)

(***************************************************************************)
(* The operations as a state machine.  An operation runs from its          *)
(* invocation to its first request, from the return of a request to the    *)
(* next one, and to its return; a request and its answer are one step of   *)
(* the remote service.                                                     *)
(***************************************************************************)
SeqsUpTo(S, n) == UNION {[1..k -> S] : k \in 0..n}

\* the function-level harness: the value a call has returned, if any
Pending == [done |-> FALSE]

Returned(v) == [done |-> TRUE, val |-> v]

Slot(start, end) == [start |-> start, end |-> end]

\* (the end of u2 is the first instant of year 1, which no zone west of
\* Greenwich can show)
RemoteSamples ==
    { Booking("u1", "Standup", "accepted", IsoStr("z", 1081, 0), IsoStr("z", 1111, 0)),
      Booking("u2", "Review", "accepted", IsoStr("z", 1080, 347000),
              IsoStr("z", DatetimeMin, 0)),
      Booking("", "Orphan", "accepted", IsoStr("z", 1081, 0), IsoStr("z", 1111, 0)),
      Booking("u4", "Old", "accepted", IsoStr("z", 1079, 0), IsoStr("z", 1109, 0)),
      Booking("u5", "Maybe", "pending", IsoStr("z", 1081, 0), IsoStr("z", 1111, 0)),
      Booking("u6", "Broken", "accepted", GarbageStart, IsoStr("z", 1111, 0)),
      Booking("u7", "Void", NullStatus, IsoStr("z", 1081, 0), IsoStr("z", 1111, 0)) }

\* a day of six accepted meetings, more than the candidate list shows
BusyDay ==
    << Booking("m1", "M1", "accepted", IsoStr("z", 1081, 0), IsoStr("z", 1111, 0)),
       Booking("m2", "M2", "accepted", IsoStr("z", 1141, 0), IsoStr("z", 1171, 0)),
       Booking("m3", "M3", "accepted", IsoStr("z", 1201, 0), IsoStr("z", 1231, 0)),
       Booking("m4", "M4", "accepted", IsoStr("z", 1261, 0), IsoStr("z", 1291, 0)),
       Booking("m5", "M5", "accepted", IsoStr("z", 1321, 0), IsoStr("z", 1351, 0)),
       Booking("m6", "M6", "accepted", IsoStr("z", 1381, 0), IsoStr("z", 1411, 0)) >>

RemoteInits == SeqsUpTo(RemoteSamples, MaxBookings) \cup {BusyDay}

\* (date, time, timezone) queries: 14:01 New York and 18:01 UTC are minute
\* 1081, 18:00 UTC is minute 1080, 14:01 UTC is minute 841
QuerySamples ==
    { <<DateStr(TRUE, 0), TimeStr(TRUE, 14, 1), "America/New_York">>,
      <<DateStr(TRUE, 0), TimeStr(TRUE, 18, 1), "UTC">>,
      <<DateStr(TRUE, 0), TimeStr(TRUE, 18, 0), "UTC">>,
      <<DateStr(TRUE, 0), TimeStr(TRUE, 14, 1), "UTC">>,
      <<DateStr(FALSE, 0), TimeStr(TRUE, 14, 1), "America/New_York">>,
      <<DateStr(TRUE, 0), TimeStr(TRUE, 14, 1), "Mars/Olympus">> }

\* minute 2521 is 18:01 of the next day, a day after the samples of now
NewStartSamples == {GarbageStart, IsoStr("z", 2521, 0)}

SlotLists ==
    { <<>>, <<Slot(IsoStr("z", 2340, 0), IsoStr("z", 2370, 0))>>,
      <<Slot(GarbageStart, IsoStr("z", 2370, 0))>> }

SeqProcs == {1}

Init ==
    /\ now \in NowSamples
    /\ eventTypeId \in {"", "123"}
    /\ remote \in RemoteInits
    /\ inv = [p \in Procs |-> IdleInv]
    /\ calls = [p \in Procs |-> <<>>]
    /\ result = [p \in Procs |-> NoResult]
    /\ call = [fn |-> "none"]
    /\ ret = Pending

\* the step of caller p that takes its record to n.inv and its result to n.result
Step(p, n) ==
    /\ inv' = [inv EXCEPT ![p] = n.inv]
    /\ result' = [result EXCEPT ![p] = n.result]

\* a client that sends every request a second time: C16 fails with it
Sent_Twice(p, request) == calls' = [calls EXCEPT ![p] = Append(Append(@, request), request)]

\* requests.request is called once in _make_request
Sent(p, request) == calls' = [calls EXCEPT ![p] = Append(@, request)]

Invoke_list_bookings(p) ==
    /\ inv[p].pc = "idle"
    /\ \E tz \in Timezones :
          Step(p, [inv |-> [IdleInv EXCEPT !.pc = "get_bookings", !.op = "list_bookings",
                                           !.tz = tz],
                   result |-> NoResult])
    /\ UNCHANGED <<now, eventTypeId, remote, calls, call, ret>>

Invoke_cancel_booking(p) ==
    /\ inv[p].pc = "idle"
    /\ \E q \in QuerySamples :
          Step(p, [inv |-> [IdleInv EXCEPT !.pc = "get_bookings", !.op = "cancel_booking",
                                           !.date = q[1], !.time = q[2], !.tz = q[3]],
                   result |-> NoResult])
    /\ UNCHANGED <<now, eventTypeId, remote, calls, call, ret>>

Invoke_reschedule_booking(p) ==
    /\ inv[p].pc = "idle"
    /\ \E q \in QuerySamples, iso \in NewStartSamples :
          Step(p, [inv |-> [IdleInv EXCEPT !.pc = "get_bookings", !.op = "reschedule_booking",
                                           !.date = q[1], !.time = q[2], !.tz = q[3],
                                           !.iso = iso],
                   result |-> NoResult])
    /\ UNCHANGED <<now, eventTypeId, remote, calls, call, ret>>

Invoke_create_booking(p) ==
    /\ inv[p].pc = "idle"
    /\ \E iso \in NewStartSamples, tz \in Timezones :
          Step(p, create_booking_before_create(
                      [IdleInv EXCEPT !.op = "create_booking", !.iso = iso, !.tz = tz]))
    /\ UNCHANGED <<now, eventTypeId, remote, calls, call, ret>>

Invoke_get_available_slots(p) ==
    /\ inv[p].pc = "idle"
    /\ \E date \in DateSamples, tz \in Timezones :
          Step(p, get_available_slots_before_slots(
                      [IdleInv EXCEPT !.op = "get_available_slots", !.date = date, !.tz = tz]))
    /\ UNCHANGED <<now, eventTypeId, remote, calls, call, ret>>

\* api_client.get_bookings returns inside _get_upcoming_accepted_bookings
GetBookingsReturns(p) ==
    /\ inv[p].pc = "get_bookings"
    /\ \E outcome \in BookingsOutcomes(remote) :
          LET response == _make_request(outcome)
              i == [inv[p] EXCEPT !.response = response]
          IN
          Step(p, CASE i.op = "list_bookings" -> list_bookings_after_fetch(i, response)
                    [] i.op = "cancel_booking" -> cancel_booking_after_fetch(i, response)
                    [] i.op = "reschedule_booking" ->
                          reschedule_booking_after_fetch(i, response))
    /\ Sent(p, get_bookings_request)
    /\ UNCHANGED <<now, eventTypeId, remote, call, ret>>

\* api_client.cancel_booking returns; the service cancels the accepted
\* booking of that uid when it answers with success
CancelReturns(p) ==
    /\ inv[p].pc = "cancel_booking"
    /\ LET uid == inv[p].matching.uid
           t == RemoteTarget(remote, uid)
       IN
       \/ /\ t # 0
          /\ remote' = [remote EXCEPT ![t].status = "cancelled"]
          /\ Step(p, [inv |-> [inv[p] EXCEPT !.pc = "done",
                                             !.mutation = _make_request(Success(None))],
                      result |-> cancel_booking_after_cancel(
                                     inv[p], _make_request(Success(None)))])
       \/ /\ \E outcome \in FailureOutcomes \cup {Answered(400, "Bad Request", None)} :
                Step(p, [inv |-> [inv[p] EXCEPT !.pc = "done",
                                                !.mutation = _make_request(outcome)],
                         result |-> cancel_booking_after_cancel(
                                        inv[p], _make_request(outcome))])
          /\ UNCHANGED remote
    /\ Sent(p, cancel_booking_request(inv[p].matching.uid))
    /\ UNCHANGED <<now, eventTypeId, call, ret>>

\* api_client.reschedule_booking returns; the service moves the booking when
\* it answers with success
RescheduleReturns(p) ==
    /\ inv[p].pc = "reschedule_booking"
    /\ LET uid == inv[p].matching.uid
           t == RemoteTarget(remote, uid)
       IN
       \/ /\ t # 0
          /\ remote' = [remote EXCEPT ![t].start = inv[p].new_utc_time]
          /\ Step(p, [inv |-> [inv[p] EXCEPT !.pc = "done",
                                             !.mutation = _make_request(Success(None))],
                      result |-> reschedule_booking_after_reschedule(
                                     inv[p], _make_request(Success(None)))])
       \/ /\ \E outcome \in FailureOutcomes \cup {Answered(400, "Bad Request", None)} :
                Step(p, [inv |-> [inv[p] EXCEPT !.pc = "done",
                                                !.mutation = _make_request(outcome)],
                         result |-> reschedule_booking_after_reschedule(
                                        inv[p], _make_request(outcome))])
          /\ UNCHANGED remote
    /\ Sent(p, reschedule_booking_request(inv[p].matching.uid, inv[p].new_utc_time))
    /\ UNCHANGED <<now, eventTypeId, call, ret>>

\* the uid the service gives the booking it creates as the n-th of its list
NewUid(n) == CASE n = 1 -> "n1" [] n = 2 -> "n2" [] n = 3 -> "n3" [] OTHER -> "n4"

\* api_client.create_booking returns; the service appends the booking when it
\* answers with success (it holds at most MaxBookings bookings or a busy day)
CreateReturns(p) ==
    /\ inv[p].pc = "create_booking"
    /\ \/ /\ Len(remote) < MaxBookings
          /\ LET uid == NewUid(Len(remote) + 1) IN
             /\ remote' = Append(remote, Booking(uid, "Created", "accepted",
                                                 inv[p].new_utc_time, NoStart))
             /\ \E data \in {None, Some([uid |-> uid])} :
                   Step(p, [inv |-> [inv[p] EXCEPT !.pc = "done",
                                                   !.mutation = _make_request(Success(data))],
                            result |-> create_booking_after_create(
                                           inv[p], _make_request(Success(data)))])
       \/ /\ \E outcome \in FailureOutcomes \cup {Answered(400, "Bad Request", None)} :
                Step(p, [inv |-> [inv[p] EXCEPT !.pc = "done",
                                                !.mutation = _make_request(outcome)],
                         result |-> create_booking_after_create(
                                        inv[p], _make_request(outcome))])
          /\ UNCHANGED remote
    /\ Sent(p, create_booking_request(inv[p].new_utc_time))
    /\ UNCHANGED <<now, eventTypeId, call, ret>>

\* api_client.get_available_slots returns
SlotsReturns(p) ==
    /\ inv[p].pc = "get_available_slots"
    /\ \E outcome \in FailureOutcomes \cup {Success(None)}
                      \cup {Success(Some(sl)) : sl \in SlotLists} :
          Step(p, [inv |-> [inv[p] EXCEPT !.pc = "done"],
                   result |-> get_available_slots_after_slots(
                                  inv[p], _make_request(outcome))])
    /\ Sent(p, get_available_slots_request)
    /\ UNCHANGED <<now, eventTypeId, remote, call, ret>>

\* the caller takes the returned string; nothing of the invocation is kept
Return(p) ==
    /\ inv[p].pc = "done"
    /\ inv' = [inv EXCEPT ![p] = IdleInv]
    /\ calls' = [calls EXCEPT ![p] = <<>>]
    /\ result' = [result EXCEPT ![p] = NoResult]
    /\ UNCHANGED <<now, eventTypeId, remote, call, ret>>

\* time passes
Tick ==
    /\ \E n \in NowSamples : DtGt(n, now) /\ now' = n
    /\ UNCHANGED <<opvars, call, ret>>

Next ==
    \/ Tick
    \/ \E p \in SeqProcs :
          \/ Invoke_list_bookings(p)
          \/ Invoke_cancel_booking(p)
          \/ Invoke_reschedule_booking(p)
          \/ Invoke_create_booking(p)
          \/ Invoke_get_available_slots(p)
          \/ GetBookingsReturns(p)
          \/ CancelReturns(p)
          \/ RescheduleReturns(p)
          \/ CreateReturns(p)
          \/ SlotsReturns(p)
          \/ Return(p)

Spec == Init /\ [][Next]_vars

(***************************************************************************)
(* Two callers that cancel at the same time.  The operations share no      *)
(* state in the process: every invocation has its own locals, and the      *)
(* steps of the two interleave at the requests.                            *)
(***************************************************************************)
PairInits == SeqsUpTo(RemoteSamples, 1)

InitPair ==
    /\ now \in NowSamples
    /\ eventTypeId = "123"
    /\ remote \in PairInits
    /\ inv = [p \in Procs |-> IdleInv]
    /\ calls = [p \in Procs |-> <<>>]
    /\ result = [p \in Procs |-> NoResult]
    /\ call = [fn |-> "none"]
    /\ ret = Pending

NextPair ==
    \/ Tick
    \/ \E p \in Procs :
          \/ Invoke_cancel_booking(p)
          \/ GetBookingsReturns(p)
          \/ CancelReturns(p)

SpecPair == InitPair /\ [][NextPair]_vars

(***************************************************************************)
(* Function-level harness: Init draws the inputs of one function, the      *)
(* function's action applies it once.                                      *)
(***************************************************************************)
MatcherBookings ==
    {Booking("u1", "Standup", "accepted", st, NoStart) : st \in StartSamples}
    \cup {Booking("u1", "Standup", s, IsoStr("z", 1080, 0), NoStart) : s \in StatusSamples}

IsoSamples ==
    { GarbageStart, NoStart, IsoStr("naive", 2340, 0), IsoStr("naive", 2340, 30123456),
      IsoStr("z", 2340, 0), IsoStr("z", 1080, 5000999) }

\* the first day of datetime, 0001-01-01, in days after 2025-07-24
FirstDay == 0 - 739455

\* dates: the day of the bookings, a malformed date, the days New York sets
\* its clocks back (2025-11-02) and forward (2026-03-08), and 0001-01-01
WallDateSamples ==
    {DateStr(TRUE, 0), DateStr(FALSE, 0), DateStr(TRUE, 101), DateStr(TRUE, 227),
     DateStr(TRUE, FirstDay)}

\* times: 00:00, 01:30 (twice on 2025-11-02), 02:30 (never on 2026-03-08),
\* 03:30, 14:00 and the malformed 25:00
WallTimeSamples ==
    {TimeStr(TRUE, 0, 0), TimeStr(TRUE, 1, 30), TimeStr(TRUE, 2, 30), TimeStr(TRUE, 3, 30),
     TimeStr(TRUE, 14, 0), TimeStr(TRUE, 25, 0)}

\* UTC strings: "invalid-datetime", "", a string without offset, instants of
\* July 2025, either side of both clock changes, and "0001-01-01T00:00:00Z"
UtcStringSamples ==
    { GarbageStart, NoStart, IsoStr("naive", 1080, 0), IsoStr("z", 1080, 0),
      IsoStr("z", 1080, 30123456), IsoStr("z", FallBack2025 - 1, 0),
      IsoStr("z", FallBack2025, 0), IsoStr("z", SpringForward2026 - 1, 0),
      IsoStr("z", SpringForward2026, 0), IsoStr("z", DatetimeMin, 0) }

\* datetime.isoformat() of an aware UTC value: a well-formed string with offset
IsoFormat(dt) == IsoStr("z", dt.min, dt.us)

\* convert_user_time_to_utc, then convert_utc_to_user_timezone of its result
\* in the same zone: [utc, back], back being absent when the first call raised
RoundTrip(date_str, time_str, user_timezone) ==
    LET utc == convert_user_time_to_utc_outcome(date_str, time_str, user_timezone) IN
    [utc |-> utc,
     back |-> IF utc.exc # "none" THEN utc
              ELSE convert_utc_to_user_timezone_outcome(IsoFormat(utc.dt), user_timezone)]

\* what the one HTTP attempt can end in: an exception of the transport, an
\* error status with a text or a JSON body, the last status below 400, and
\* status 200 with a body that is not JSON, is empty, or is JSON
RequestOutcomes ==
    { Raised("Connection refused"), Raised("Read timed out"),
      Answered(400, "Bad Request", None),
      Answered(404, "{\"status\": \"error\"}", Some(Payload("error", Some("User not found"), None))),
      Answered(500, "Internal Server Error", None),
      Answered(399, "json", Some(Payload("success", None, None))),
      Answered(399, "<html>", None),
      Answered(200, "<html>", None),
      Answered(204, "", None),
      Answered(200, "null", Some(JsonNull)),
      Answered(200, "{}", Some(EmptyDict)),
      Answered(200, "json", Some(Payload("error", Some("User not found"), None))),
      Answered(200, "json", Some(Payload("success", None, None))),
      Answered(200, "json", Some(Payload("success", None, Some(<<>>)))) }

\* bookings to render: a start in July, no start, a start that does not
\* parse, a start no zone west of Greenwich can show, and a booking without
\* title
ListedBookings ==
    { Booking("u1", "Standup", "accepted", IsoStr("z", 1080, 0), NoStart),
      Booking("u2", "Review", "accepted", NoStart, NoStart),
      Booking("u3", "Broken", "accepted", GarbageStart, NoStart),
      Booking("u4", "Ancient", "accepted", IsoStr("z", DatetimeMin, 0), NoStart),
      Booking("u5", "", "accepted", IsoStr("z", 1081, 0), NoStart) }

\* timestamps to format: 18:00 UTC (the parse of "2025-07-24T18:00:00.000Z"),
\* the same instant in New York, 18:00:30.123456, midnight, noon, and the
\* naive 14:30
FormatDtSamples ==
    { FromIsoformat(IsoStr("z", 1080, 0)).dt, Dt(TRUE, 1080, 0, 0 - 240),
      Dt(TRUE, 1080, 30123456, 0), Dt(TRUE, 1440, 0, 0), Dt(TRUE, 720, 0, 0),
      Dt(FALSE, 870, 0, 0) }

\* kinds: the four members, their values as strings, and "invalid_format"
FormatKinds ==
    {FormatType_TIME_ONLY, FormatType_DATE_TIME, FormatType_FRIENDLY, FormatType_DEFAULT}
    \cup {KindString(v) : v \in {"time_only", "date_time", "friendly", "datetime",
                                 "invalid_format"}}

\* the table a test puts in place of FORMAT_PATTERNS
PatchedPatterns == [time_only |-> "%invalid_pattern%"]

PatternTable(patched) == IF patched THEN PatchedPatterns ELSE FORMAT_PATTERNS

\* the booking the reschedule is asked to move, at 18:01 UTC (14:01 in New
\* York)
MovedBooking == Booking("u1", "Standup", "accepted", IsoStr("z", 1081, 0), IsoStr("z", 1111, 0))

create_booking_against_success(start_time_iso, user_timezone) ==
    LET b == create_booking_before_create(
                 [IdleInv EXCEPT !.op = "create_booking", !.iso = start_time_iso,
                                 !.tz = user_timezone])
    IN IF b.inv.pc = "done" THEN [sent |-> NoStart, result |-> b.result]
       ELSE [sent |-> b.inv.new_utc_time,
             result |-> create_booking_after_create(
                            b.inv, _make_request(Success(Some([uid |-> "n1"]))))]

reschedule_booking_against_success(new_start_time_iso, user_timezone) ==
    LET f == reschedule_booking_after_fetch(
                 [IdleInv EXCEPT !.op = "reschedule_booking", !.pc = "get_bookings",
                                 !.date = DateStr(TRUE, 0),
                                 !.time = IF user_timezone = "America/New_York"
                                          THEN TimeStr(TRUE, 14, 1)
                                          ELSE TimeStr(TRUE, 18, 1),
                                 !.tz = user_timezone, !.iso = new_start_time_iso],
                 _make_request(Success(Some(<<MovedBooking>>))))
    IN IF f.inv.pc = "done" THEN [sent |-> NoStart, result |-> f.result]
       ELSE [sent |-> f.inv.new_utc_time,
             result |-> reschedule_booking_after_reschedule(
                            f.inv, _make_request(Success(None)))]

InitFn ==
    /\ now \in NowSamples
    /\ call \in
          [fn : {"find_booking_by_time"}, bookings : SeqsUpTo(MatcherBookings, MaxBookings),
           date : DateSamples, time : TimeSamples, tz : Timezones]
          \cup [fn : {"_get_upcoming_accepted_bookings"},
                outcome : UNION {BookingsOutcomes(bs) : bs \in SeqsUpTo(MatcherBookings, MaxBookings)}]
          \cup [fn : {"convert_iso_to_utc_api_format"}, iso : IsoSamples, tz : Timezones]
          \cup [fn : {"convert_user_time_to_utc"}, date : WallDateSamples, time : WallTimeSamples,
                tz : Timezones]
          \cup [fn : {"convert_utc_to_user_timezone"}, utc : UtcStringSamples, tz : Timezones]
          \cup [fn : {"round_trip"}, date : WallDateSamples, time : WallTimeSamples, tz : Timezones]
          \cup [fn : {"_make_request"}, outcome : RequestOutcomes]
          \* the same find_booking_by_time call made twice, the clock moving between
          \cup [fn : {"find_booking_by_time, twice"}, bookings : SeqsUpTo(MatcherBookings, MaxBookings),
                date : DateSamples, time : TimeSamples, tz : Timezones]
          \cup [fn : {"format_booking_list"}, bookings : SeqsUpTo(ListedBookings, MaxBookings),
                tz : Timezones, limit : {0, 1, 5}]
          \cup [fn : {"format_for_display"}, dt : FormatDtSamples, tz : Timezones,
                format_type : FormatKinds, patched : BOOLEAN]
          \* create_booking and reschedule_booking run to their return against a
          \* service that answers every request with success: [sent, result], sent
          \* the start string of the mutation payload (NoStart: no mutation sent)
          \cup [fn : {"create_booking", "reschedule_booking"},
                iso : {GarbageStart, IsoStr("naive", 2340, 0), IsoStr("z", 2340, 0)},
                tz : Timezones]
    /\ ret = Pending
    /\ eventTypeId = "123"
    /\ remote = <<>>
    /\ inv = [p \in Procs |-> IdleInv]
    /\ calls = [p \in Procs |-> <<>>]
    /\ result = [p \in Procs |-> NoResult]

ApplyFind ==
    /\ call.fn = "find_booking_by_time" /\ ~ret.done
    /\ ret' = Returned(find_booking_by_time(call.bookings, call.date, call.time, call.tz))
    /\ UNCHANGED <<now, call, opvars>>

ApplyUpcoming ==
    /\ call.fn = "_get_upcoming_accepted_bookings" /\ ~ret.done
    /\ ret' = Returned(_get_upcoming_accepted_bookings(_make_request(call.outcome)))
    /\ UNCHANGED <<now, call, opvars>>

ApplyIso ==
    /\ call.fn = "convert_iso_to_utc_api_format" /\ ~ret.done
    /\ ret' = Returned(convert_iso_to_utc_api_format(call.iso, call.tz))
    /\ UNCHANGED <<now, call, opvars>>

ApplyUserTime ==
    /\ call.fn = "convert_user_time_to_utc" /\ ~ret.done
    /\ ret' = Returned(convert_user_time_to_utc_outcome(call.date, call.time, call.tz))
    /\ UNCHANGED <<now, call, opvars>>

ApplyUtcToUser ==
    /\ call.fn = "convert_utc_to_user_timezone" /\ ~ret.done
    /\ ret' = Returned(convert_utc_to_user_timezone_outcome(call.utc, call.tz))
    /\ UNCHANGED <<now, call, opvars>>

ApplyRoundTrip ==
    /\ call.fn = "round_trip" /\ ~ret.done
    /\ ret' = Returned(RoundTrip(call.date, call.time, call.tz))
    /\ UNCHANGED <<now, call, opvars>>

ApplyMakeRequest ==
    /\ call.fn = "_make_request" /\ ~ret.done
    /\ ret' = Returned(_make_request(call.outcome))
    /\ UNCHANGED <<now, call, opvars>>

\* the first of the two calls returns
ApplyFindFirst ==
    /\ call.fn = "find_booking_by_time, twice" /\ ret = Pending
    /\ ret' = [done |-> FALSE,
               first |-> find_booking_by_time(call.bookings, call.date, call.time, call.tz)]
    /\ UNCHANGED <<now, call, opvars>>

\* time passes between the two calls
ClockMoves ==
    /\ call.fn = "find_booking_by_time, twice" /\ ~ret.done /\ ret # Pending
    /\ \E n \in NowSamples : DtGt(n, now) /\ now' = n
    /\ UNCHANGED <<call, ret, opvars>>

\* the second call returns
ApplyFindSecond ==
    /\ call.fn = "find_booking_by_time, twice" /\ ~ret.done /\ ret # Pending
    /\ ret' = Returned([first |-> ret.first,
                        second |-> find_booking_by_time(call.bookings, call.date,
                                                        call.time, call.tz)])
    /\ UNCHANGED <<now, call, opvars>>

ApplyFormatList ==
    /\ call.fn = "format_booking_list" /\ ~ret.done
    /\ ret' = Returned(format_booking_list(call.bookings, call.tz, call.limit))
    /\ UNCHANGED <<now, call, opvars>>

ApplyFormat ==
    /\ call.fn = "format_for_display" /\ ~ret.done
    /\ ret' = Returned(format_for_display_with(PatternTable(call.patched), call.dt, call.tz,
                                               call.format_type))
    /\ UNCHANGED <<now, call, opvars>>

ApplyCreate ==
    /\ call.fn = "create_booking" /\ ~ret.done
    /\ ret' = Returned(create_booking_against_success(call.iso, call.tz))
    /\ UNCHANGED <<now, call, opvars>>

ApplyReschedule ==
    /\ call.fn = "reschedule_booking" /\ ~ret.done
    /\ ret' = Returned(reschedule_booking_against_success(call.iso, call.tz))
    /\ UNCHANGED <<now, call, opvars>>

NextFn ==
    \/ ApplyFind \/ ApplyUpcoming \/ ApplyIso
    \/ ApplyUserTime \/ ApplyUtcToUser \/ ApplyRoundTrip
    \/ ApplyMakeRequest
    \/ ApplyFindFirst \/ ClockMoves \/ ApplyFindSecond
    \/ ApplyFormatList \/ ApplyFormat
    \/ ApplyCreate \/ ApplyReschedule

SpecFn == InitFn /\ [][NextFn]_vars

(***************************************************************************)
(* Claims about find_booking_by_time.                                      *)
(***************************************************************************)
FindReturned == call.fn = "find_booking_by_time" /\ ret.done

\* the query names a wall-clock time and a zone the runtime knows
ValidQuery ==
    /\ call.date.wf /\ call.time.wf
    /\ call.time.h \in 0..23 /\ call.time.m \in 0..59
    /\ call.tz \in {"UTC", "America/New_York"}

\* the UTC minute the query denotes
QueryMinute ==
    call.date.day * 1440 + call.time.h * 60 + call.time.m
    + (IF call.tz = "America/New_York" THEN 240 ELSE 0)

AcceptedAnyCase(b) == b.status \in {"accepted", "ACCEPTED", "Accepted"}

\* booking i is accepted and its start is an instant inside minute q
InMinute(i, q) ==
    /\ AcceptedAnyCase(call.bookings[i])
    /\ call.bookings[i].start.kind = "z"
    /\ call.bookings[i].start.min = q

\* C1: for a valid query, an accepted booking whose start lies in the query's
\* minute (whatever its seconds and microseconds) is matched: a booking is
\* returned, that booking or an earlier one of the same minute; a returned
\* booking always starts in the query's minute, so a booking one minute earlier
\* or later is never returned.
C1_MinuteTruncatedEquality ==
    (FindReturned /\ ValidQuery) =>
        /\ \A i \in 1..Len(call.bookings) :
              InMinute(i, QueryMinute) =>
                  /\ ret.val.found
                  /\ ret.val.idx <= i
                  /\ (Len(call.bookings) = 1 => ret.val.booking = call.bookings[i])
        /\ ret.val.found =>
              /\ ret.val.booking.start.kind = "z"
              /\ ret.val.booking.start.min = QueryMinute
        /\ \A i \in 1..Len(call.bookings) :
              call.bookings[i].start.min \in {QueryMinute - 1, QueryMinute + 1}
                  => ~(ret.val.found /\ ret.val.idx = i)

\* C1 witness: a start of 18:00:00.347Z is returned for a New York query of
\* 14:00 while a booking one minute later in the same list is not.
C1_Witness ==
    /\ FindReturned /\ ValidQuery /\ call.tz = "America/New_York"
    /\ ret.val.found /\ ret.val.booking.start.us = 347000
    /\ \E i \in 1..Len(call.bookings) :
          /\ call.bookings[i].start = IsoStr("z", QueryMinute + 1, 0)
          /\ call.bookings[i].status = "accepted"
          /\ i < ret.val.idx

\* C2: whatever the query, the returned booking's status is "accepted" in some
\* letter case; and an "ACCEPTED" booking in the query's minute is matched like
\* an accepted one.
C2_OnlyAcceptedMatches ==
    FindReturned =>
        /\ ret.val.found => AcceptedAnyCase(ret.val.booking)
        /\ ValidQuery =>
              \A i \in 1..Len(call.bookings) :
                  (InMinute(i, QueryMinute) /\ call.bookings[i].status = "ACCEPTED")
                      => (ret.val.found /\ ret.val.idx <= i)

\* C2 witness: a pending booking at the requested minute is passed over and
\* the "ACCEPTED" booking behind it is returned.
C2_Witness ==
    /\ FindReturned /\ ValidQuery
    /\ Len(call.bookings) = 2
    /\ call.bookings[1].status = "pending"
    /\ call.bookings[1].start.min = QueryMinute
    /\ call.bookings[2].status = "ACCEPTED"
    /\ ret.val.found /\ ret.val.idx = 2

\* C3: for a valid query the result is the first booking, in input order,
\* that is accepted and starts in the query's minute; bookings in front of it
\* that are skipped do not end the scan; with no such booking (in particular
\* for the empty list) the result is none.
C3_FirstMatchInInputOrder ==
    (FindReturned /\ ValidQuery) =>
        LET hits == {i \in 1..Len(call.bookings) : InMinute(i, QueryMinute)} IN
        /\ hits = {} => ~ret.val.found
        /\ hits # {} =>
              /\ ret.val.found
              /\ \A j \in hits : ret.val.idx <= j
              /\ ret.val.idx \in hits
              /\ ret.val.booking = call.bookings[ret.val.idx]

\* C3 witness: two accepted bookings of the same minute, the first one wins.
C3_Witness ==
    /\ FindReturned /\ ValidQuery
    /\ Len(call.bookings) = 2
    /\ InMinute(1, QueryMinute) /\ InMinute(2, QueryMinute)
    /\ call.bookings[1] # call.bookings[2]
    /\ ret.val.found /\ ret.val.idx = 1 /\ ret.val.booking = call.bookings[1]

\* C3 second witness state: a skipped booking in front does not end the scan.
C3_WitnessSkip ==
    /\ FindReturned /\ ValidQuery
    /\ Len(call.bookings) = 2
    /\ call.bookings[1].start.kind = "garbage"
    /\ ret.val.found /\ ret.val.idx = 2

(***************************************************************************)
(* Claims about _get_upcoming_accepted_bookings.                           *)
(***************************************************************************)
UpcomingReturned == call.fn = "_get_upcoming_accepted_bookings" /\ ret.done

\* the bookings endpoint answered with status "success" and a list
FetchedList ==
    /\ ~call.outcome.raised /\ call.outcome.status_code < 400
    /\ call.outcome.json # None
    /\ TheOne(call.outcome.json).status = "success"
    /\ TheOne(call.outcome.json).data # None

RemoteList == TheOne(TheOne(call.outcome.json).data)

\* the start's date and time, read on the UTC time line, are after now
LaterThanNow(b) ==
    b.start.min > now.min \/ (b.start.min = now.min /\ b.start.us > now.us)

StartsAfterNow(b) == b.start.kind = "z" /\ LaterThanNow(b)

\* C4 as claimed: kept are the accepted bookings that start strictly after the
\* current instant (a start without offset read as UTC) or whose start string
\* fails to parse.
C4_ClaimedKeep(b) ==
    /\ AcceptedAnyCase(b)
    /\ \/ b.start.kind = "garbage"
       \/ (b.start.kind \in {"z", "naive"} /\ LaterThanNow(b))

C4_AmendedKeep(b) ==
    AcceptedAnyCase(b)
    /\ (StartsAfterNow(b) \/ b.start.kind = "garbage" \/ b.start.kind = "naive")

IsoReturned == call.fn = "convert_iso_to_utc_api_format" /\ ret.done

\* the input denotes an instant: it is well formed and either carries its
\* offset or is to be read in a zone the runtime knows
IsoDenotesInstant ==
    \/ call.iso.kind = "z"
    \/ (call.iso.kind = "naive" /\ call.tz \in {"UTC", "America/New_York"})

\* the UTC minute the input denotes
IsoMinute ==
    IF call.iso.kind = "naive" /\ call.tz = "America/New_York"
    THEN call.iso.min + 240 ELSE call.iso.min

\* C10: on an input that denotes no instant the conversion raises a ValueError
\* naming the input and returns nothing; a returned string is the input's own
\* instant, never the current time or another timestamp.
C10_IsoConversionFailsExplicitly ==
    IsoReturned =>
        /\ ~IsoDenotesInstant =>
              /\ ret.val.exc = "ValueError"
              /\ ret.val.msg = InvalidStartTime(call.iso)
              /\ ret.val.val = NoStart
        /\ IsoDenotesInstant =>
              /\ ret.val.exc = "none"
              /\ ret.val.val.kind = "z"
              /\ ret.val.val.min = IsoMinute
              /\ ret.val.val.us = call.iso.us - (call.iso.us % 100)

\* C10 witness: the unparseable input is rejected.
C10_Witness ==
    /\ IsoReturned
    /\ call.iso = GarbageStart
    /\ ret.val.exc = "ValueError"

(***************************************************************************)
(* Claims about cancel_booking and reschedule_booking, from the return of  *)
(* the bookings request on.  The step in which that request returns runs   *)
(* the operation to its mutation request or to its return, with the clock  *)
(* unchanged, so what the filter and the matcher gave is read off the      *)
(* state the step starts in.                                               *)
(***************************************************************************)
Mutators == {"cancel_booking", "reschedule_booking"}

\* the requests cs hold no call of a mutating endpoint
NoMutationIn(cs) == \A k \in 1..Len(cs) : cs[k].method # "POST"

\* caller p's bookings request returns in this step
FetchReturns(p) ==
    /\ inv[p].op \in Mutators
    /\ inv[p].pc = "get_bookings"
    /\ inv'[p].pc # "get_bookings"

\* the fetch failed: transport failure, no payload, or a status other than success
FetchFailed(r) ==
    \/ ~r.success
    \/ r.data = None
    \/ TheOne(r.data).status # "success"

\* the operation of p returns in this step without having called a mutating endpoint
ReturnsUnmutated(p) == inv'[p].pc = "done" /\ NoMutationIn(calls'[p])

\* the filtered list and the matcher's answer of the invocation whose fetch
\* returns in this step
FilteredOf(p) == _get_upcoming_accepted_bookings(inv'[p].response).bookings

FilterReturned(p) == _get_upcoming_accepted_bookings(inv'[p].response).exc = "none"

MatchOf(p) == find_booking_by_time(FilteredOf(p), inv[p].date, inv[p].time, inv[p].tz)

\* C5: when the bookings fetch of cancel_booking or reschedule_booking fails
\* (success false, no payload, or a payload status other than "success") the
\* operation returns "Error: Could not retrieve bookings. ..." without calling
\* the matcher or a mutating endpoint; when the filtered list is empty it
\* returns the no-upcoming message, again without a mutation call (the filter
\* has returned a list: it has not ended in an exception).
C5_NoMutationWhenFetchFails ==
    [][\A p \in Procs : FetchReturns(p) =>
          /\ FetchFailed(inv'[p].response) =>
                /\ ReturnsUnmutated(p)
                /\ result'[p].kind = "Error: Could not retrieve bookings. {error_msg}"
                /\ ~inv'[p].matcher_called
          /\ (~FetchFailed(inv'[p].response) /\ FilterReturned(p)
                 /\ FilteredOf(p) = <<>>) =>
                /\ ReturnsUnmutated(p)
                /\ result'[p].kind = "No upcoming accepted bookings found for that email."
       ]_vars

\* C5 witness: a reschedule whose fetch answered with a failure status has
\* returned the retrieval error.
C5_Witness ==
    \E p \in Procs :
        /\ inv[p].op = "reschedule_booking" /\ inv[p].pc = "done"
        /\ inv[p].response.success
        /\ inv[p].response.data # None
        /\ TheOne(inv[p].response.data).status = "error"
        /\ result[p].kind = "Error: Could not retrieve bookings. {error_msg}"
        /\ Len(calls[p]) = 1

Min(a, b) == IF a < b THEN a ELSE b

MatchedWithoutUid(p) ==
    /\ FetchReturns(p)
    /\ ~FetchFailed(inv'[p].response)
    /\ FilteredOf(p) # <<>>
    /\ MatchOf(p).found
    /\ MatchOf(p).booking.uid = ""

C8_NotConfiguredNoRemoteCall ==
    \A p \in Procs :
        (inv[p].op \in {"create_booking", "get_available_slots"} /\ eventTypeId = "") =>
            /\ inv[p].pc = "done"
            /\ result[p].kind = "Error: EVENT_TYPE_ID is not configured. Please check your .env file."
            /\ result[p].parts = <<>>
            /\ calls[p] = <<>>

\* C8 witness: create_booking has returned with no event-type id configured.
C8_Witness ==
    \E p \in Procs :
        /\ inv[p].op = "create_booking" /\ inv[p].pc = "done"
        /\ eventTypeId = ""
        /\ inv[p].iso.kind = "z"

\* the ISO string denotes no instant in the zone: fromisoformat rejects it, or
\* it carries no offset and the zone is unknown
ConversionFails(iso, user_timezone) ==
    \/ iso.kind \in {"empty", "garbage"}
    \/ (iso.kind = "naive" /\ user_timezone \notin {"UTC", "America/New_York"})

\* caller p's operation has reached the conversion of its (new) start time:
\* create_booking once configured, reschedule_booking once it has a match
ReachedConversion(p) ==
    \/ inv[p].op = "create_booking" /\ eventTypeId # ""
    \/ inv[p].op = "reschedule_booking" /\ inv[p].matching # NoBooking

UserTimeReturned == call.fn = "convert_user_time_to_utc" /\ ret.done

UtcToUserReturned == call.fn = "convert_utc_to_user_timezone" /\ ret.done

\* the UTC string does not parse, or the zone is not one the runtime knows
NeedsFallback == call.utc.kind \in {"empty", "garbage"} \/ call.tz = "Mars/Olympus"

\* C11 as stated: both read-path conversions return a timestamp for every
\* input and never raise; convert_utc_to_user_timezone returns the current UTC
\* time when the string does not parse or the zone is unresolvable;
\* convert_user_time_to_utc always returns a UTC-zoned timestamp.
C11_Original_ReadPathTotal ==
    /\ UtcToUserReturned =>
          /\ ret.val.exc = "none"
          /\ NeedsFallback => ret.val.dt = now
    /\ UserTimeReturned =>
          /\ ret.val.exc = "none"
          /\ ret.val.dt.aware /\ ret.val.dt.off = 0

\* the input reaches date arithmetic on the first day of datetime
AtFirstDay ==
    \/ UtcToUserReturned /\ call.utc.kind = "z" /\ call.utc.min = DatetimeMin
    \/ UserTimeReturned /\ call.date.wf /\ call.date.day = FirstDay
          /\ call.time.wf /\ call.time.h \in 0..23

\* C11, what holds: away from the first day of datetime the conversions return
\* as claimed; on it, in a zone other than "UTC", OverflowError escapes.
C11_ReadPathTotalInRange ==
    /\ ~AtFirstDay => C11_Original_ReadPathTotal
    /\ (AtFirstDay /\ call.tz = "America/New_York") => ret.val.exc = "OverflowError"

\* C11 witness: "invalid-datetime" in zone "UTC" came back as the current time.
C11_Witness ==
    /\ UtcToUserReturned
    /\ call.utc = GarbageStart /\ call.tz = "UTC"
    /\ ret.val = Value(now)

(***************************************************************************)
(* Claims about the round trip local -> UTC -> local.                      *)
(***************************************************************************)
RoundTripReturned == call.fn = "round_trip" /\ ret.done

\* a well-formed date and time and a zone the runtime knows
ValidTriple ==
    /\ call.date.wf /\ call.time.wf
    /\ call.time.h \in 0..23 /\ call.time.m \in 0..59
    /\ call.tz \in {"UTC", "America/New_York"}

\* the wall clock asked for, in minutes since 2025-07-24T00:00
AskedWall == call.date.day * 1440 + call.time.h * 60 + call.time.m

\* the wall clock (date, hour and minute) the round trip came back with
BackWall == ret.val.back.dt.min + ret.val.back.dt.off

SkippedWall ==
    /\ call.tz = "America/New_York"
    /\ AskedWall >= SpringForward2026 - 300
    /\ AskedWall < SpringForward2026 - 240

MakeRequestReturned == call.fn = "_make_request" /\ ret.done

\* C13 as stated: success true implies the error is absent and the parsed
\* payload and the status code are carried; success false implies the error
\* is present and the payload is absent.
C13_Original_EnvelopeInvariant ==
    MakeRequestReturned =>
        /\ ret.val.success =>
              ret.val.error = None /\ ret.val.data # None /\ ret.val.status_code # None
        /\ ~ret.val.success => ret.val.error # None /\ ret.val.data = None

\* the body of the answer is the JSON value null
BodyIsNull == call.outcome.json # None /\ TheOne(call.outcome.json).null

\* C13 amended: success true implies the error is absent, the status code is
\* carried and data is what the body parsed to, which is absent exactly when
\* the body is the JSON value null; success false implies the error is
\* present and the payload is absent.
C13_EnvelopeInvariant ==
    MakeRequestReturned =>
        /\ ret.val.success =>
              /\ ret.val.error = None
              /\ ret.val.status_code = Some(call.outcome.status_code)
              /\ ret.val.data = IF BodyIsNull THEN None ELSE call.outcome.json
              /\ ~BodyIsNull => ret.val.data # None
        /\ ~ret.val.success => ret.val.error # None /\ ret.val.data = None

\* C13 witness: a JSON answer came back as a success carrying payload and status.
C13_Witness ==
    /\ MakeRequestReturned
    /\ call.outcome = Answered(200, "json", Some(Payload("success", None, Some(<<>>))))
    /\ ret.val.success
    /\ ret.val.data = Some(Payload("success", None, Some(<<>>)))
    /\ ret.val.status_code = Some(200)

C15_VersionPerEndpoint ==
    \A p \in Procs : \A k \in 1..Len(calls[p]) :
        LET r == calls[p][k] IN
        /\ r.endpoint \in {"slots", "bookings", "bookings/{uid}/cancel",
                           "bookings/{uid}/reschedule"}
        /\ r.api_version = IF r.endpoint = "slots" THEN "2024-09-04" ELSE "2024-08-13"

\* C15 witness: get_available_slots has sent its request to the slots endpoint.
C15_Witness ==
    \E p \in Procs :
        /\ inv[p].op = "get_available_slots" /\ inv[p].pc = "done"
        /\ Len(calls[p]) = 1
        /\ calls[p][1].endpoint = "slots"
        /\ calls[p][1].api_version = "2024-09-04"

\* the mutating endpoint of an operation
MutationEndpoint(op) ==
    CASE op = "cancel_booking" -> "bookings/{uid}/cancel"
      [] op = "reschedule_booking" -> "bookings/{uid}/reschedule"
      [] OTHER -> "bookings"

\* C16: an operation sends at most two requests; cancel and reschedule send
\* the bookings fetch first and at most one mutation after it; list, slots and
\* create send at most one request; no request is sent a second time.
C16_AtMostTwoCallsNoRetry ==
    \A p \in Procs :
        LET cs == calls[p]
            op == inv[p].op
        IN
        /\ Len(cs) <= 2
        /\ inv[p].pc = "idle" => cs = <<>>
        /\ op \in Mutators =>
              /\ Len(cs) >= 1 => cs[1].method = "GET" /\ cs[1].endpoint = "bookings"
              /\ Len(cs) = 2 =>
                    /\ cs[2].method = "POST"
                    /\ cs[2].endpoint = MutationEndpoint(op)
                    /\ inv[p].pc = "done"
        /\ op \in {"list_bookings", "get_available_slots", "create_booking"} =>
              /\ Len(cs) <= 1
              /\ Len(cs) = 1 => inv[p].pc = "done"

\* C16 witness: a cancel has sent the fetch and then one cancel request, which
\* failed, and has returned.
C16_Witness ==
    \E p \in Procs :
        /\ inv[p].op = "cancel_booking" /\ inv[p].pc = "done"
        /\ Len(calls[p]) = 2
        /\ calls[p][2].endpoint = "bookings/{uid}/cancel"
        /\ result[p].kind = "Error: Could not cancel the booking. {cancel_response.error}"

(***************************************************************************)
(* Claims about what the mutating operations report.                       *)
(***************************************************************************)
SuccessKinds ==
    { "Success! Meeting '{title}' booked for {user_name} on {display_time} ({user_timezone}). Confirmation sent to {user_email}. Booking UID: {booking_uid}",
      "Success! Booking '{booking_title}' scheduled for {display_time} ({user_timezone}) has been cancelled. Booking UID: {booking_uid}",
      "Successfully rescheduled '{booking_title}'!\nFrom: {old_display_time} ({user_timezone})\nTo: {new_display_time} ({user_timezone})\nBooking UID: {booking_uid}",
      "Success! Meeting '{title}' booked for {user_name} at {start_time_iso}. Confirmation sent to {user_email}. Booking UID: {booking_uid}",
      "Success! Booking '{booking_title}' has been cancelled. Booking UID: {booking_uid}",
      "Successfully rescheduled '{booking_title}'! Booking UID: {booking_uid}" }

\* the two error strings of an operation: transport failure, failure status
MutationErrorKinds(op) ==
    CASE op = "cancel_booking" ->
           <<"Error: Could not cancel the booking. {cancel_response.error}",
             "Error: Could not cancel the booking. API response: {error_msg}">>
      [] op = "reschedule_booking" ->
           <<"Error: Could not reschedule the booking. {reschedule_response.error}",
             "Error: Reschedule failed. API response: {error_msg}">>
      [] OTHER ->
           <<"Error: Booking creation failed. {response.error}",
             "Error: Booking creation failed. API response: {error_msg}">>

\* the mutation request of p has been sent and has returned
MutationReturned(p) ==
    /\ inv[p].pc = "done"
    /\ Len(calls[p]) >= 1
    /\ calls[p][Len(calls[p])].method = "POST"

\* the payload of a response carries status "success"
PayloadSaysSuccess(response) ==
    /\ response.data # None
    /\ TheOne(response.data) \notin {JsonNull, EmptyDict}
    /\ TheOne(response.data).status = "success"

\* the error the payload reports, if it reports one
ReportedError(response) ==
    IF response.data = None \/ TheOne(response.data) \in {JsonNull, EmptyDict}
    THEN None
    ELSE TheOne(response.data).error

\* C18: create, cancel and reschedule return a success confirmation only if
\* the mutation response has success true and its payload's status is
\* "success"; on a transport failure the result is the operation's error
\* string with the response's error in it, on a failure status the
\* operation's error string with the error the payload reports in it.
C18_SuccessOnlyOnConfirmedMutation ==
    \A p \in Procs :
        LET r == inv[p].mutation
            kinds == MutationErrorKinds(inv[p].op)
        IN
        /\ result[p].kind \in SuccessKinds =>
              /\ MutationReturned(p)
              /\ r.success
              /\ PayloadSaysSuccess(r)
        /\ MutationReturned(p) /\ ~r.success =>
              result[p] = Msg(kinds[1], <<r.error>>)
        /\ MutationReturned(p) /\ r.success /\ ~PayloadSaysSuccess(r) =>
              /\ result[p].kind = kinds[2]
              /\ ReportedError(r) # None => result[p].parts = <<TheOne(ReportedError(r))>>

\* C18 witness: a cancel request was answered 200 with a payload of status
\* "error" reporting "User not found", and the operation returned that error.
C18_Witness ==
    \E p \in Procs :
        /\ inv[p].op = "cancel_booking" /\ MutationReturned(p)
        /\ inv[p].mutation.success
        /\ ReportedError(inv[p].mutation) = Some("User not found")
        /\ result[p] = Msg("Error: Could not cancel the booking. API response: {error_msg}",
                          <<"User not found">>)

(***************************************************************************)
(* Claims about what the operations return.                                *)
(***************************************************************************)
\* C17 as stated: every operation that has ended has returned a descriptive
\* string, whatever the remote service answered, and no exception has left it.
C17_Original_AlwaysAString ==
    \A p \in Procs :
        inv[p].pc = "done" => inv[p].exc = "none" /\ result[p].kind # ""

\* C17 witness: list_bookings got a bookings payload with status "success"
\* whose list holds a booking with a null status, and ended in the
\* AttributeError of the filter loop.
C17_Witness ==
    \E p \in Procs :
        /\ inv[p].op = "list_bookings" /\ inv[p].pc = "done"
        /\ inv[p].response.success
        /\ PayloadSaysSuccess(inv[p].response)
        /\ \E k \in 1..Len(AllBookings(inv[p].response)) :
              AllBookings(inv[p].response)[k].status = NullStatus
        /\ inv[p].exc = "AttributeError"
        /\ result[p] = NoResult

\* the bookings request of a list_bookings of p returns in this step
ListFetchReturns(p) ==
    /\ inv[p].op = "list_bookings"
    /\ inv[p].pc = "get_bookings"
    /\ inv'[p].pc = "done"

\* the last part of a rendered line: the uid
LastPart(line) == line.parts[Len(line.parts)]

\* C19: list_bookings renders one line per upcoming accepted booking, in fetch
\* order, each with that booking's title and uid, under a header whose count
\* is the number of lines; one booking gives "(1 found)"; none gives the
\* no-upcoming message.
C19_OneLinePerBooking ==
    [][\A p \in Procs :
          (ListFetchReturns(p) /\ ~FetchFailed(inv'[p].response) /\ FilterReturned(p)) =>
             LET upcoming == FilteredOf(p) IN
             IF upcoming = <<>>
             THEN result'[p].kind = "No upcoming accepted bookings found for that email."
             ELSE /\ result'[p].kind = "Upcoming accepted bookings ({n} found) in {user_timezone}:\n{lines}"
                  /\ LET n == result'[p].parts[1]
                         lines == result'[p].parts[3]
                     IN
                     /\ n = Len(upcoming)
                     /\ n = Len(lines)
                     /\ Len(upcoming) = 1 => n = 1
                     /\ \A k \in 1..Len(lines) :
                           /\ upcoming[k].title # "" => lines[k].parts[1] = upcoming[k].title
                           /\ upcoming[k].uid # "" => LastPart(lines[k]) = upcoming[k].uid
       ]_vars

\* C19 witness: a listing of one accepted booking that starts a day from now
\* has returned a header counting 1 and one line with its title and uid.
C19_Witness ==
    \E p \in Procs :
        /\ inv[p].op = "list_bookings" /\ inv[p].pc = "done"
        /\ Len(inv[p].accepted) = 1
        /\ inv[p].accepted[1].start.kind = "z"
        /\ inv[p].accepted[1].start.min - now.min >= 1440
        /\ Len(result[p].parts) = 3
        /\ result[p].parts[1] = 1
        /\ Len(result[p].parts[3]) = 1
        /\ result[p].parts[3][1].parts[1] = inv[p].accepted[1].title
        /\ LastPart(result[p].parts[3][1]) = inv[p].accepted[1].uid

\* the listing of a booking whose end cannot be shown in the zone falls back
\* to the raw strings and still names the title and the uid
C19_WitnessFallbackLine ==
    \E p \in Procs :
        /\ inv[p].op = "list_bookings" /\ inv[p].pc = "done"
        /\ Len(inv[p].accepted) >= 1
        /\ Len(result[p].parts) = 3
        /\ result[p].parts[3][1].kind =
              "- Title: {title}, Start: {start}, End: {end}, Booking UID: {uid}"

(***************************************************************************)
(* Claims about two cancels of one booking.                                *)
(***************************************************************************)
\* p has sent its cancel request for uid and has returned
CancelledFor(p, uid) ==
    /\ inv[p].op = "cancel_booking" /\ inv[p].pc = "done"
    /\ Len(calls[p]) = 2
    /\ calls[p][2].endpoint = "bookings/{uid}/cancel"
    /\ calls[p][2].uid = uid

\* the service accepted the cancel request of p
Accepted(p) == inv[p].mutation.success /\ PayloadSaysSuccess(inv[p].mutation)

\* the result of p is the error string of the failure response of its cancel
ReportsOwnFailure(p) ==
    LET r == inv[p].mutation IN
    IF ~r.success
    THEN result[p] = Msg("Error: Could not cancel the booking. {cancel_response.error}",
                         <<r.error>>)
    ELSE /\ ~PayloadSaysSuccess(r)
         /\ result[p] = Msg("Error: Could not cancel the booking. API response: {error_msg}",
                            <<FailureDetail(r)>>)

\* C20: when two cancel operations have both matched the same booking (both
\* fetched while it was accepted) and sent their cancel requests, and the
\* service accepted a cancel of it, then the booking is cancelled once: one
\* request was accepted, that invocation alone returns a success
\* confirmation, and the other returns the error of its own failure response.
C20_DoubleCancelOneSuccess ==
    \A uid \in {b.uid : b \in RemoteSamples} \ {""} :
        (CancelledFor(1, uid) /\ CancelledFor(2, uid) /\ (Accepted(1) \/ Accepted(2))) =>
            \E w \in Procs : \E l \in Procs \ {w} :
                /\ Accepted(w) /\ ~Accepted(l)
                /\ result[w].kind \in SuccessKinds
                /\ result[l].kind \notin SuccessKinds
                /\ ReportsOwnFailure(l)
                /\ \A k \in 1..Len(remote) : remote[k].uid = uid => remote[k].status = "cancelled"

\* C20 witness: both callers sent a cancel for u1; caller 2 was answered
\* first and got the confirmation, caller 1 was answered 400 and got the
\* error of that response.
C20_Witness ==
    /\ CancelledFor(1, "u1") /\ CancelledFor(2, "u1")
    /\ Accepted(2)
    /\ result[2].kind \in SuccessKinds
    /\ inv[1].mutation.status_code = Some(400)
    /\ result[1].kind = "Error: Could not cancel the booking. {cancel_response.error}"
    /\ result[1].parts = <<inv[1].mutation.error>>
    /\ remote[1].status = "cancelled"

(***************************************************************************)
(* Claims about the fallback of convert_user_time_to_utc.                  *)
(***************************************************************************)
FoundTwice == call.fn = "find_booking_by_time, twice" /\ ret.done

\* C21 as stated: two calls of find_booking_by_time with the same list and the
\* same (date, time, timezone) return the same booking or both none, whatever
\* the clock reads at each call and whatever the arguments are.
C21_Original_MatchIsDeterministic ==
    FoundTwice => ret.val.first = ret.val.second

\* C21 witness: with a date that does not parse, the first call, made in
\* minute 1079, found nothing and the second, made in minute 1080, returned
\* the accepted booking that starts in minute 1080.
C21_Witness ==
    /\ FoundTwice
    /\ ~call.date.wf
    /\ ~ret.val.first.found
    /\ ret.val.second.found
    /\ ret.val.second.booking.start.min = now.min

\* the instant a well-formed date and time denote in UTC
AsUtc(date_str, time_str) ==
    Dt(TRUE, date_str.day * 1440 + time_str.h * 60 + time_str.m, 0, 0)

\* a call of convert_user_time_to_utc with a well-formed date and time and a
\* timezone name that does not resolve has returned
UnresolvableReturned ==
    /\ UserTimeReturned
    /\ call.date.wf /\ call.time.wf
    /\ call.time.h \in 0..23 /\ call.time.m \in 0..59
    /\ ~Resolvable(call.tz) /\ call.tz # "UTC"

\* C22 as stated: with a well-formed date and time and an unresolvable
\* timezone name, convert_user_time_to_utc returns the date and time read as
\* UTC, the result for timezone "UTC".
C22_Original_UnresolvableReadAsUtc ==
    UnresolvableReturned =>
        /\ ret.val = Value(AsUtc(call.date, call.time))
        /\ ret.val = convert_user_time_to_utc_outcome(call.date, call.time, "UTC")

\* C22 witness: the call returned the current time, which is not the instant
\* the date and time denote in UTC.
C22_Witness ==
    /\ UnresolvableReturned
    /\ ret.val = Value(now)
    /\ ret.val.dt # AsUtc(call.date, call.time)

(***************************************************************************)
(* Claims about the string convert_iso_to_utc_api_format writes.  The      *)
(* fraction of an IsoStr is its us field modulo 1000000: three digits       *)
(* print a multiple of 1000.                                               *)
(***************************************************************************)
\* C23 as stated: the conversion returns the UTC instant of its input as
\* YYYY-MM-DDTHH:MM:SS.mmmZ: an input without offset is read as wall-clock
\* time in the given timezone, an input with an offset or Z denotes its own
\* instant whatever the timezone, and the digits below the millisecond are
\* cut off.
C23_Original_MillisecondShape ==
    (IsoReturned /\ IsoDenotesInstant) =>
        /\ ret.val.exc = "none"
        /\ ret.val.val.kind = "z"
        /\ ret.val.val.min = IsoMinute
        /\ ret.val.val.us = call.iso.us - (call.iso.us % 1000)

\* C23 witness: the input "...:30.123456" in New York came back as the UTC
\* minute four hours later with the fraction .1234: a digit below the
\* millisecond is kept.
C23_Witness ==
    /\ IsoReturned
    /\ call.iso = IsoStr("naive", 2340, 30123456)
    /\ call.tz = "America/New_York"
    /\ ret.val.exc = "none"
    /\ ret.val.val = IsoStr("z", 2580, 30123400)

(***************************************************************************)
(* Claims about format_booking_list.                                       *)
(***************************************************************************)
FormatListReturned == call.fn = "format_booking_list" /\ ret.done

\* rendering the start in the zone leaves the range of datetime
CannotBeShown(start, user_timezone) ==
    /\ start.kind = "z"
    /\ user_timezone = "America/New_York"
    /\ start.min - 300 < DatetimeMin

\* C24: format_booking_list returns min(limit, number of bookings) strings,
\* the k-th for the k-th booking: "- {title}: No start time available" when
\* it has no start, the raw title and start when rendering raises,
\* "- {title}: {date-time} ({tz})" otherwise; the line of a booking is the
\* line it gets when listed alone, whatever happens to the others.
C24_OneLinePerListedBooking ==
    FormatListReturned =>
        /\ Len(ret.val) = Min(call.limit, Len(call.bookings))
        /\ \A k \in 1..Len(ret.val) :
              LET b == call.bookings[k]
                  line == ret.val[k]
              IN
              /\ b.title # "" => line.parts[1] = b.title
              /\ IF b.start = NoStart
                 THEN line.kind = "- {title}: No start time available"
                 ELSE IF CannotBeShown(b.start, call.tz)
                 THEN line.kind = "- {title}: {start}" /\ line.parts[2] = b.start
                 ELSE /\ line.kind = "- {title}: {display_time} ({user_timezone})"
                      /\ line.parts[2].pattern = "%Y-%m-%d %H:%M"
                      /\ line.parts[3] = call.tz
              /\ <<line>> = format_booking_list(<<b>>, call.tz, 1)

\* C24 witness: two bookings listed for New York with limit 5: the first
\* cannot be rendered and shows its raw start, the second is rendered.
C24_Witness ==
    /\ FormatListReturned
    /\ call.limit = 5 /\ Len(call.bookings) = 2 /\ Len(ret.val) = 2
    /\ call.tz = "America/New_York"
    /\ call.bookings[1].start = IsoStr("z", DatetimeMin, 0)
    /\ ret.val[1] = Msg("- {title}: {start}", <<"Ancient", IsoStr("z", DatetimeMin, 0)>>)
    /\ ret.val[2].kind = "- {title}: {display_time} ({user_timezone})"
    /\ ret.val[2].parts[1] = "Standup"

\* the limit cuts the list: one line for two bookings
C24_WitnessLimit ==
    /\ FormatListReturned
    /\ call.limit = 1 /\ Len(call.bookings) = 2 /\ Len(ret.val) = 1

(***************************************************************************)
(* Claims about format_for_display.                                        *)
(***************************************************************************)
FormatReturned == call.fn = "format_for_display" /\ ret.done

\* the minute the timestamp shows on its own wall clock
WallMinute(dt) == dt.min + dt.off

\* C25: each kind, given as member of the enum or as its string value, is
\* rendered with its fixed pattern off the timestamp's own wall clock
\* (HH:MM; YYYY-MM-DD HH:MM for date-time and default; long date with 12-hour
\* time and meridiem for friendly); an unknown kind string and a failing
\* pattern lookup give str(dt); the timestamp is the one passed in; the parse
\* of "2025-07-24T18:00:00.000Z" as date-time is 2025-07-24 18:00.
C25_FixedPatternsAndFallback ==
    FormatReturned =>
        LET kind == call.format_type.value
            w == WallMinute(call.dt)
        IN
        /\ (call.patched \/ kind = "invalid_format") =>
              ret.val = [pattern |-> "str(dt)", dt |-> call.dt]
        /\ (~call.patched /\ kind = "time_only") =>
              ret.val = [pattern |-> "%H:%M", wall |-> w % 1440]
        /\ (~call.patched /\ kind \in {"date_time", "datetime"}) =>
              ret.val = [pattern |-> "%Y-%m-%d %H:%M", wall |-> w]
        /\ (~call.patched /\ kind = "friendly") =>
              /\ ret.val.pattern = "%B %d, %Y at %I:%M %p"
              /\ ret.val.wall = w
              /\ ret.val.hour12 \in 1..12
              /\ (ret.val.hour12 % 12) * 60 + (w % 60)
                    + (IF ret.val.meridiem = "PM" THEN 720 ELSE 0) = w % 1440
              /\ ret.val.meridiem \in {"AM", "PM"}
        /\ (~call.patched /\ kind = "date_time"
              /\ call.dt = FromIsoformat(IsoStr("z", 1080, 0)).dt) =>
              ret.val = [pattern |-> "%Y-%m-%d %H:%M", wall |-> 18 * 60]
        /\ ret.val = format_for_display_with(PatternTable(call.patched), call.dt, call.tz,
                                             [call.format_type EXCEPT !.is_str = ~@])
              \/ kind = "invalid_format"

\* C25 witness: midnight rendered friendly from the string "friendly" reads
\* 12 AM.
C25_Witness ==
    /\ FormatReturned
    /\ call.format_type = KindString("friendly") /\ ~call.patched
    /\ call.dt = Dt(TRUE, 1440, 0, 0)
    /\ ret.val.hour12 = 12 /\ ret.val.meridiem = "AM"

\* the unknown kind string gives str(dt)
C25_WitnessFallback ==
    /\ FormatReturned
    /\ call.format_type = KindString("invalid_format")
    /\ ret.val.pattern = "str(dt)"

(***************************************************************************)
(* Claims about what an invocation knows of the bookings.                  *)
(***************************************************************************)
\* the booking list of the fetch of the invocation i, empty before the fetch
\* and when the fetch failed
FetchedBy(i) ==
    IF i.response.success /\ PayloadSaysSuccess(i.response)
    THEN AllBookings(i.response) ELSE <<>>

\* the record b is an element of the list bs
IsIn(b, bs) == \E k \in 1..Len(bs) : bs[k] = b

\* caller p starts an invocation in this step
Invokes(p) == inv[p].pc = "idle" /\ inv'[p].pc # "idle"

\* a successful bookings fetch of p returns in this step
FetchSucceeds(p) ==
    /\ inv[p].pc = "get_bookings" /\ inv'[p].pc # "get_bookings"
    /\ inv'[p].response.success /\ PayloadSaysSuccess(inv'[p].response)

\* C26: an invocation starts with no booking, no response and no request of
\* an earlier one; its fetch returns the bookings the service holds at that
\* moment; the bookings it lists and matches are records of that fetch,
\* unchanged; the booking it matches is one of them and its mutation request
\* names that booking's uid.
C26_FreshSnapshotPerInvocation ==
    [][\A p \in Procs :
          /\ Invokes(p) =>
                /\ inv'[p].accepted = <<>> /\ inv'[p].matching = NoBooking
                /\ inv'[p].response = NoResponse /\ inv'[p].mutation = NoResponse
                /\ calls'[p] = <<>>
          /\ FetchSucceeds(p) =>
                \/ TheOne(inv'[p].response.data).data = None
                \/ FetchedBy(inv'[p]) = remote
          /\ \A k \in 1..Len(inv'[p].accepted) :
                IsIn(inv'[p].accepted[k], FetchedBy(inv'[p]))
          /\ inv'[p].matching # NoBooking => IsIn(inv'[p].matching, inv'[p].accepted)
          /\ \A k \in 1..Len(calls'[p]) :
                (calls'[p][k].method = "POST" /\ inv'[p].op \in Mutators) =>
                   /\ inv'[p].matching # NoBooking
                   /\ calls'[p][k].uid = inv'[p].matching.uid
       ]_vars

\* C26 witness: after an earlier invocation cancelled u1, a listing fetched
\* u1 as cancelled together with an accepted booking, and lists only the
\* latter.
C26_Witness ==
    \E p \in Procs :
        /\ inv[p].op = "list_bookings" /\ inv[p].pc = "done"
        /\ Len(FetchedBy(inv[p])) = 2
        /\ FetchedBy(inv[p])[1].uid = "u1"
        /\ FetchedBy(inv[p])[1].status = "cancelled"
        /\ Len(inv[p].accepted) = 1
        /\ inv[p].accepted[1] = FetchedBy(inv[p])[2]
        /\ inv[p].accepted[1].uid # "u1"

(***************************************************************************)
(* Claims about the booking a mutation is sent for.                        *)
(***************************************************************************)
\* the (date, time, timezone) of the invocation i denote an instant
QueryDenotesInstant(i) ==
    /\ i.date.wf /\ i.time.wf
    /\ i.time.h \in 0..23 /\ i.time.m \in 0..59
    /\ (i.tz = "UTC" \/ Resolvable(i.tz))

\* p has sent a request to a mutating endpoint
SentMutation(p) == \E k \in 1..Len(calls[p]) : calls[p][k].method = "POST"

\* C27 as stated: cancel_booking and reschedule_booking send a mutation only
\* with the uid of a booking of the invocation's own upcoming accepted list
\* whose start, cut to the minute, is the requested date and time converted
\* to UTC; when the date or time does not parse or the timezone does not
\* resolve, no booking is targeted and no mutation is sent.
C27_Original_MutationOnlyForRequestedTime ==
    \A p \in Procs :
        inv[p].op \in Mutators =>
            /\ (SentMutation(p) /\ QueryDenotesInstant(inv[p])) =>
                  /\ IsIn(inv[p].matching, inv[p].accepted)
                  /\ calls[p][2].uid = inv[p].matching.uid
                  /\ inv[p].matching.start.kind = "z"
                  /\ inv[p].matching.start.min =
                        convert_user_time_to_utc_try(inv[p].date, inv[p].time, inv[p].tz).dt.min
            /\ ~QueryDenotesInstant(inv[p]) =>
                  /\ inv[p].matching = NoBooking
                  /\ ~SentMutation(p)

\* C27 witness: a cancel asked for a date that does not parse; it matched the
\* booking that starts in the minute of the clock and sent the cancel request
\* for it.
C27_Witness ==
    \E p \in Procs :
        /\ inv[p].op = "cancel_booking" /\ inv[p].pc = "done"
        /\ ~inv[p].date.wf
        /\ inv[p].matching.uid = "u2"
        /\ SentMutation(p)
        /\ calls[p][2].endpoint = "bookings/{uid}/cancel"
        /\ calls[p][2].uid = "u2"
        /\ result[p].kind \in SuccessKinds

(***************************************************************************)
(* Claims about the time a confirmation shows.                             *)
(***************************************************************************)
\* create_booking or reschedule_booking has returned a confirmation with a
\* displayed time
Confirmed ==
    /\ call.fn \in {"create_booking", "reschedule_booking"} /\ ret.done
    /\ ret.val.result.kind \in
          { "Success! Meeting '{title}' booked for {user_name} on {display_time} ({user_timezone}). Confirmation sent to {user_email}. Booking UID: {booking_uid}",
            "Successfully rescheduled '{booking_title}'!\nFrom: {old_display_time} ({user_timezone})\nTo: {new_display_time} ({user_timezone})\nBooking UID: {booking_uid}" }

\* the rendering of the new start in the confirmation
ShownNewTime ==
    IF call.fn = "create_booking" THEN ret.val.result.parts[1] ELSE ret.val.result.parts[4]

\* the UTC minutes at which the wall clock of the zone reads wall_min
InstantsOfWall(tz, wall_min) == {wall_min - off : off \in OffsetsOfWall(tz, wall_min)}

\* C28 as stated: the time a success confirmation of create_booking shows, and
\* the new time one of reschedule_booking shows, is the wall clock in the
\* user's timezone of the instant sent in the payload, for inputs with and
\* without offset and every timezone.
C28_Original_ShownTimeIsSentInstant ==
    Confirmed => ret.val.sent.min \in InstantsOfWall(call.tz, ShownNewTime.wall)

\* C28 witness: create_booking of 15:00 without offset for New York sent
\* 19:00 UTC (minute 2580) and shows 11:00 (minute 2100).
C28_Witness ==
    /\ Confirmed
    /\ call.fn = "create_booking"
    /\ call.iso = IsoStr("naive", 2340, 0) /\ call.tz = "America/New_York"
    /\ ret.val.sent = IsoStr("z", 2580, 0)
    /\ ShownNewTime.wall = 2100

\* for an input with Z and a timezone the runtime knows the shown time is the
\* sent instant
C28_WitnessAgreeing ==
    /\ Confirmed
    /\ call.fn = "reschedule_booking"
    /\ call.iso = IsoStr("z", 2340, 0) /\ call.tz = "America/New_York"
    /\ ret.val.sent = IsoStr("z", 2340, 0)
    /\ ShownNewTime.wall = 2100

(***************************************************************************)
(* Claims about the times a listing shows.                                 *)
(***************************************************************************)
\* list_bookings of p has returned a listing
Listed(p) ==
    /\ inv[p].op = "list_bookings" /\ inv[p].pc = "done"
    /\ result[p].kind = "Upcoming accepted bookings ({n} found) in {user_timezone}:\n{lines}"

\* the rendering shown is the string's own timestamp on the wall clock of the
\* zone
IsProjectionOf(shown, utc_datetime_str, user_timezone, of_day) ==
    /\ utc_datetime_str.kind = "z"
    /\ user_timezone = "UTC" \/ Resolvable(user_timezone)
    /\ LET wall == utc_datetime_str.min + UtcOffsetAt(user_timezone, utc_datetime_str.min)
       IN shown.wall = IF of_day THEN wall % 1440 ELSE wall

\* C29 as stated: every start and end a listing shows for a booking is the
\* projection of that booking's own timestamp or its raw string; for an empty
\* or unparseable string or an unresolvable timezone the current time is not
\* shown in its place.
C29_Original_NeverShowsTheClock ==
    \A p \in Procs :
        Listed(p) =>
            \A k \in 1..Len(result[p].parts[3]) :
                LET line == result[p].parts[3][k]
                    b == inv[p].accepted[k]
                IN
                \/ /\ line.kind = "- Title: {title}, Start: {start}, End: {end}, Booking UID: {uid}"
                   /\ line.parts[2] = b.start /\ line.parts[3] = b.end
                \/ /\ IsProjectionOf(line.parts[2], b.start, inv[p].tz, FALSE)
                   /\ IsProjectionOf(line.parts[3], b.end, inv[p].tz, TRUE)

\* C29 witness: a listing in UTC of the booking whose start does not parse
\* shows a minute of the clock as its start.
C29_Witness ==
    \E p \in Procs :
        /\ Listed(p)
        /\ inv[p].tz = "UTC"
        /\ inv[p].accepted[1].uid = "u6"
        /\ inv[p].accepted[1].start = GarbageStart
        /\ result[p].parts[3][1].kind =
              "- Title: {title}, Start: {start_formatted}, End: {end_formatted} ({user_timezone}), Booking UID: {uid}"
        /\ result[p].parts[3][1].parts[2].wall \in {n.min : n \in NowSamples}

(***************************************************************************)
(* Claims about bookings without a start.                                  *)
(***************************************************************************)
\* an accepted booking whose start is missing or empty
AcceptedWithoutStart(b) == Lower(b.status) = "accepted" /\ b.start = NoStart

\* C30 as stated: an accepted booking whose start is missing or empty is kept
\* by _get_upcoming_accepted_bookings, as one whose start does not parse is.
C30_Original_KeepsBookingWithoutStart ==
    (UpcomingReturned /\ FetchedList) =>
        \A k \in 1..Len(RemoteList) :
            AcceptedWithoutStart(RemoteList[k]) => IsIn(RemoteList[k], ret.val.bookings)

\* C30 witness: of two accepted bookings, one without start and one whose
\* start does not parse, the helper returned only the second.
C30_Witness ==
    /\ UpcomingReturned /\ FetchedList
    /\ Len(RemoteList) = 2
    /\ AcceptedWithoutStart(RemoteList[1])
    /\ RemoteList[2].status = "accepted" /\ RemoteList[2].start = GarbageStart
    /\ ret.val.ok
    /\ ret.val.bookings = <<RemoteList[2]>>

====
